---- MODULE Spec2Model ----
(***************************************************************************)
(* Relationship graph and risk scoring of Chain-Of-Record.                 *)
(*                                                                         *)
(*   backend/app/domain/graph/service.py    GraphService                   *)
(*   backend/app/domain/scoring/engine.py   RuleRegistry, ScoringEngine    *)
(*                                                                         *)
(* A table is the sequence of its rows in the order the store returns     *)
(* them to a query without ORDER BY; ids come from the primary key         *)
(* sequence.  A nullable column holds None (<<>>) or Some(x) (<<x>>).      *)
(* Dates are day numbers; a confidence is a number of hundredths           *)
(* (Numeric(3, 2)).                                                        *)
(***************************************************************************)
EXTENDS Integers, Sequences, FiniteSets, TLC

VARIABLES
    relationships,  \* table "relationships" (graph/models.py)
    uncommitted,    \* session -> ids of rows it flushed and has not committed
    calls,          \* session -> the create_relationship call it is inside
    entities,       \* table "entities": id -> row (entities/models.py)
    rules,          \* RuleRegistry._rules
    risk_scores,    \* table "risk_scores"
    verifications,  \* table "verification_requests", each row with the numbers
                    \* of its verification_documents and verification_liveness rows
    ret             \* what the last completed call returned or raised

vars == <<relationships, uncommitted, calls, entities, rules, risk_scores,
          verifications, ret>>

----------------------------------------------------------------------------
(* Values *)

None == <<>>

Some(x) == <<x>>

\* Python truthiness of an Optional[int]: None and 0 are falsy.
TruthyInt(v) == v # None /\ v[1] # 0

Range(s) == {s[i] : i \in DOMAIN s}

NoReturn == [op |-> "none"]

NoCall == [pc |-> "idle"]

----------------------------------------------------------------------------
(* Bounds *)

MaxRels == 3

MaxScores == 3

MaxBatch == 2

MaxExtraRules == 2

Sessions == {1, 2}

----------------------------------------------------------------------------
(* GraphService.create_relationship *)

\* The identity tuple of an edge.
Identity(r) == <<r.from_type, r.from_id, r.to_type, r.to_id, r.rel_type>>

IsActive(r) == r.end_date = None

\* The filter of the existence query: same endpoints, same rel_type,
\* end_date IS NULL.
ActiveMatch_PerSource(r, a) ==
    /\ Identity(r) = Identity(a)
    /\ r.source_system = a.source_system
    /\ IsActive(r)

ActiveMatch(r, a) ==
    /\ r.from_type = a.from_type
    /\ r.from_id = a.from_id
    /\ r.to_type = a.to_type
    /\ r.to_id = a.to_id
    /\ r.rel_type = a.rel_type
    /\ r.end_date = None

\* The rows the existence query can return (.first() takes one of them).
ExistingRelationships(rows, a) == {r \in Range(rows) : ActiveMatch(r, a)}

\* Relationship(...) as flushed: confidence=confidence or 1.0.
NewRelationship(newId, a) ==
    [id            |-> newId,
     from_type     |-> a.from_type,
     from_id       |-> a.from_id,
     to_type       |-> a.to_type,
     to_id         |-> a.to_id,
     rel_type      |-> a.rel_type,
     source_system |-> a.source_system,
     start_date    |-> a.start_date,
     end_date      |-> a.end_date,
     confidence    |-> IF TruthyInt(a.confidence) THEN a.confidence ELSE Some(100)]

\* Arguments of the create calls the store specifications make.
Edge(ft, fi, tt, ti, rt) ==
    [from_type |-> ft, from_id |-> fi, to_type |-> tt, to_id |-> ti, rel_type |-> rt]

WithOptions(e, src, sd, ed, conf) ==
    [from_type |-> e.from_type, from_id |-> e.from_id, to_type |-> e.to_type,
     to_id |-> e.to_id, rel_type |-> e.rel_type, source_system |-> src,
     start_date |-> sd, end_date |-> ed, confidence |-> conf]

StoreEdges ==
    {Edge("entity", 1, "property", 1, "owns"),
     Edge("person", 1, "entity", 1, "agent_for")}

ClosedOn == Some(19000)

CreateArgs ==
    {WithOptions(e, o[1], None, ed, o[2]) :
        e \in StoreEdges,
        ed \in {None, ClosedOn},
        o \in {<<"sunbiz", None>>, <<"marion_pa", Some(80)>>, <<"marion_pa", Some(0)>>}}

\* Arguments of the create calls that concurrent sessions make: one identity
\* asserted by two sources, and a second identity.
RaceArgs ==
    {WithOptions(Edge("entity", 1, "property", 1, "owns"), "sunbiz", None, None, None),
     WithOptions(Edge("entity", 1, "property", 1, "owns"), "marion_pa", None, None, Some(80)),
     WithOptions(Edge("person", 1, "entity", 1, "agent_for"), "sunbiz", None, None, None)}

\* One whole create_relationship call on a session that runs alone.
CreateRelationship(a) ==
    LET found == ExistingRelationships(relationships, a) IN
    /\ IF found # {}
       THEN \E existing \in found :
              /\ ret' = [op |-> "create_relationship", args |-> a, value |-> existing]
              /\ UNCHANGED relationships
       ELSE /\ Len(relationships) < MaxRels
            /\ LET relationship == NewRelationship(Len(relationships) + 1, a) IN
                 /\ relationships' = Append(relationships, relationship)
                 /\ ret' = [op |-> "create_relationship", args |-> a, value |-> relationship]
    /\ UNCHANGED <<uncommitted, calls, entities, rules, risk_scores, verifications>>

----------------------------------------------------------------------------
(* The relationship store used by one session at a time *)

Init ==
    /\ relationships = <<>>
    /\ uncommitted = [s \in Sessions |-> {}]
    /\ calls = [s \in Sessions |-> NoCall]
    /\ entities = <<>>
    /\ rules = <<>>
    /\ risk_scores = <<>>
    /\ verifications = <<>>
    /\ ret = NoReturn

Next ==
    \E a \in CreateArgs : CreateRelationship(a)

Spec == Init /\ [][Next]_vars

----------------------------------------------------------------------------
(* create_relationship calls of concurrent sessions.  Each session runs in
   its own transaction (SessionLocal, core/db.py): it sees the committed rows
   and the rows it flushed itself.  A call is split at its two statements,
   the existence query and the flush of the new row; the caller commits
   afterwards (IngestCoordinator, ingest/base.py). *)

Flushed == UNION {uncommitted[s] : s \in Sessions}

VisibleTo(s) ==
    SelectSeq(relationships, LAMBDA r : r.id \notin (Flushed \ uncommitted[s]))

Committed == SelectSeq(relationships, LAMBDA r : r.id \notin Flushed)

\* service.py 32-41: existing = query(...).first()
QueryExisting(s, a) ==
    /\ calls[s].pc = "idle"
    /\ LET found == ExistingRelationships(VisibleTo(s), a) IN
         \E existing \in (IF found = {} THEN {None} ELSE {Some(r) : r \in found}) :
            calls' = [calls EXCEPT ![s] = [pc |-> "queried", args |-> a, existing |-> existing]]
    /\ UNCHANGED <<relationships, uncommitted, entities, rules, risk_scores, ret, verifications>>

\* service.py 43-67: return existing, or add the new row and flush it
ReturnOrFlush(s) ==
    /\ calls[s].pc = "queried"
    /\ IF calls[s].existing # None
       THEN /\ ret' = [op |-> "create_relationship", args |-> calls[s].args,
                       value |-> calls[s].existing[1]]
            /\ UNCHANGED <<relationships, uncommitted>>
       ELSE /\ Len(relationships) < MaxRels
            /\ LET relationship == NewRelationship(Len(relationships) + 1, calls[s].args) IN
                 /\ relationships' = Append(relationships, relationship)
                 /\ uncommitted' = [uncommitted EXCEPT ![s] = @ \cup {relationship.id}]
                 /\ ret' = [op |-> "create_relationship", args |-> calls[s].args,
                            value |-> relationship]
    /\ calls' = [calls EXCEPT ![s] = NoCall]
    /\ UNCHANGED <<entities, rules, risk_scores, verifications>>

\* ingest/base.py 209: self.db.commit()
Commit(s) ==
    /\ calls[s].pc = "idle"
    /\ uncommitted[s] # {}
    /\ uncommitted' = [uncommitted EXCEPT ![s] = {}]
    /\ UNCHANGED <<relationships, calls, entities, rules, risk_scores, ret, verifications>>

NextRace ==
    \/ \E s \in Sessions, a \in RaceArgs : QueryExisting(s, a)
    \/ \E s \in Sessions : ReturnOrFlush(s)
    \/ \E s \in Sessions : Commit(s)

SpecRace == Init /\ [][NextRace]_vars

----------------------------------------------------------------------------
(* GraphService.get_outgoing_relationships / get_incoming_relationships.
   query.all() has no ORDER BY: the rows come back in the order the store
   keeps the table in. *)

get_outgoing_relationships_ToSide(rows, node_type, node_id, rel_type, active_only) ==
    SelectSeq(rows, LAMBDA r :
        /\ r.to_type = node_type
        /\ r.to_id = node_id
        /\ (rel_type # None /\ rel_type[1] # "") => r.rel_type = rel_type[1]
        /\ active_only => r.end_date = None)

get_outgoing_relationships(rows, node_type, node_id, rel_type, active_only) ==
    SelectSeq(rows, LAMBDA r :
        /\ r.from_type = node_type
        /\ r.from_id = node_id
        /\ (rel_type # None /\ rel_type[1] # "") => r.rel_type = rel_type[1]
        /\ active_only => r.end_date = None)

get_incoming_relationships_AllRows(rows, node_type, node_id, rel_type, active_only) ==
    SelectSeq(rows, LAMBDA r :
        /\ r.to_type = node_type
        /\ r.to_id = node_id
        /\ (rel_type # None /\ rel_type[1] # "") => r.rel_type = rel_type[1])

get_incoming_relationships(rows, node_type, node_id, rel_type, active_only) ==
    SelectSeq(rows, LAMBDA r :
        /\ r.to_type = node_type
        /\ r.to_id = node_id
        /\ (rel_type # None /\ rel_type[1] # "") => r.rel_type = rel_type[1]
        /\ active_only => r.end_date = None)

GetOutgoingRelationships(node_type, node_id, rel_type, active_only) ==
    /\ ret' = [op          |-> "get_outgoing_relationships",
               node_type   |-> node_type,
               node_id     |-> node_id,
               rel_type    |-> rel_type,
               active_only |-> active_only,
               value       |-> get_outgoing_relationships(relationships, node_type,
                                   node_id, rel_type, active_only)]
    /\ UNCHANGED <<relationships, uncommitted, calls, entities, rules, risk_scores, verifications>>

GetIncomingRelationships(node_type, node_id, rel_type, active_only) ==
    /\ ret' = [op          |-> "get_incoming_relationships",
               node_type   |-> node_type,
               node_id     |-> node_id,
               rel_type    |-> rel_type,
               active_only |-> active_only,
               value       |-> get_incoming_relationships(relationships, node_type,
                                   node_id, rel_type, active_only)]
    /\ UNCHANGED <<relationships, uncommitted, calls, entities, rules, risk_scores, verifications>>

----------------------------------------------------------------------------
(* The relationship store created and queried by one session *)

QueryNodes == {<<"entity", 1>>, <<"property", 1>>, <<"person", 1>>}

QueryRelTypes == {None, Some(""), Some("owns"), Some("agent_for")}

NextStore ==
    \/ \E a \in CreateArgs : CreateRelationship(a)
    \/ \E node \in QueryNodes, rel_type \in QueryRelTypes, active_only \in BOOLEAN :
          GetOutgoingRelationships(node[1], node[2], rel_type, active_only)
    \/ \E node \in QueryNodes, rel_type \in QueryRelTypes, active_only \in BOOLEAN :
          GetIncomingRelationships(node[1], node[2], rel_type, active_only)

SpecStore == Init /\ [][NextStore]_vars

----------------------------------------------------------------------------
(* The store with relationships closed by the collaborator that owns the
   lifecycle: the service itself has no operation that sets end_date on a
   stored row. *)

\* The date the collaborator closes relationships on.
ClosedLater == Some(19500)

CloseRelationship(id, end_date) ==
    /\ id \in DOMAIN relationships
    /\ relationships[id].end_date = None
    /\ relationships' = [relationships EXCEPT ![id].end_date = end_date]
    /\ ret' = [op |-> "close_relationship", id |-> id]
    /\ UNCHANGED <<uncommitted, calls, entities, rules, risk_scores, verifications>>

NextLifecycle ==
    \/ \E a \in RaceArgs : CreateRelationship(a)
    \/ \E id \in 1..MaxRels : CloseRelationship(id, ClosedLater)
    \/ \E node \in QueryNodes, rel_type \in QueryRelTypes, active_only \in BOOLEAN :
          GetOutgoingRelationships(node[1], node[2], rel_type, active_only)
    \/ \E node \in QueryNodes, rel_type \in QueryRelTypes, active_only \in BOOLEAN :
          GetIncomingRelationships(node[1], node[2], rel_type, active_only)

SpecLifecycle == Init /\ [][NextLifecycle]_vars

----------------------------------------------------------------------------
(* GraphService.find_connected_entities *)

\* f"{type}:{id}": injective for integer ids, kept as the pair.
NodeKey(type, id) == <<type, id>>

\* if rel_types and rel.rel_type not in rel_types: continue
FilteredOut(rel, rel_types) ==
    /\ rel_types # None
    /\ rel_types[1] # <<>>
    /\ rel.rel_type \notin Range(rel_types[1])

\* The edge dict appended for rel, seen from either side.
EdgeView(rel) ==
    [from         |-> NodeKey(rel.from_type, rel.from_id),
     to           |-> NodeKey(rel.to_type, rel.to_id),
     relationship |-> rel.rel_type,
     source       |-> rel.source_system,
     confidence   |-> IF TruthyInt(rel.confidence) THEN rel.confidence[1] ELSE 100]

\* visited = set(), nodes = {}, edges = []; visits lists the nodes in the
\* order traverse recorded them and fetched their relationships.
EmptyTraversal == [visited |-> {}, nodes |-> {}, edges |-> <<>>, visits |-> <<>>]

\* if depth > max_depth or (current_type, current_id) in visited: return
Returns_DepthOnly(t, key, depth, max_depth) == depth > max_depth

Returns_AtMaxDepth(t, key, depth, max_depth) ==
    depth >= max_depth \/ key \in t.visited

Returns(t, key, depth, max_depth) ==
    depth > max_depth \/ key \in t.visited

\* A visit that records the node but leaves it out of visited.
Visit_NotMarked(t, key, depth) ==
    [t EXCEPT !.nodes  = {n \in @ : NodeKey(n.type, n.id) # key}
                            \cup {[type |-> key[1], id |-> key[2], depth |-> depth]},
              !.visits = Append(@, key)]

\* visited.add(...); nodes[key] = {type, id, depth}
Visit(t, key, depth) ==
    [t EXCEPT !.visited = @ \cup {key},
              !.nodes   = {n \in @ : NodeKey(n.type, n.id) # key}
                            \cup {[type |-> key[1], id |-> key[2], depth |-> depth]},
              !.visits  = Append(@, key)]

RECURSIVE traverse(_, _, _, _, _, _)
RECURSIVE FollowAll(_, _, _, _, _, _, _)

\* A loop that emits no edge into a node visited before.
FollowAll_SkipVisited(rows, max_depth, rel_types, t, depth, rels, outward) ==
    IF rels = <<>> THEN t
    ELSE LET rel == Head(rels)
             far == IF outward THEN NodeKey(rel.to_type, rel.to_id)
                               ELSE NodeKey(rel.from_type, rel.from_id)
         IN  IF FilteredOut(rel, rel_types) \/ far \in t.visited
             THEN FollowAll(rows, max_depth, rel_types, t, depth, Tail(rels), outward)
             ELSE FollowAll(rows, max_depth, rel_types,
                            traverse(rows, max_depth, rel_types,
                                     [t EXCEPT !.edges = Append(@, EdgeView(rel))],
                                     far, depth + 1),
                            depth, Tail(rels), outward)

\* One of the two for loops of traverse: rels is what is left of the list,
\* outward tells which end of a relationship is the far one.
FollowAll(rows, max_depth, rel_types, t, depth, rels, outward) ==
    IF rels = <<>> THEN t
    ELSE LET rel == Head(rels)
             far == IF outward THEN NodeKey(rel.to_type, rel.to_id)
                               ELSE NodeKey(rel.from_type, rel.from_id)
         IN  IF FilteredOut(rel, rel_types)
             THEN FollowAll(rows, max_depth, rel_types, t, depth, Tail(rels), outward)
             ELSE FollowAll(rows, max_depth, rel_types,
                            traverse(rows, max_depth, rel_types,
                                     [t EXCEPT !.edges = Append(@, EdgeView(rel))],
                                     far, depth + 1),
                            depth, Tail(rels), outward)

traverse(rows, max_depth, rel_types, t, key, depth) ==
    IF Returns(t, key, depth, max_depth) THEN t
    ELSE LET outgoing == get_outgoing_relationships(rows, key[1], key[2], None, TRUE)
             afterOut == FollowAll(rows, max_depth, rel_types, Visit(t, key, depth),
                                   depth, outgoing, TRUE)
             incoming == get_incoming_relationships(rows, key[1], key[2], None, TRUE)
         IN  FollowAll(rows, max_depth, rel_types, afterOut, depth, incoming, FALSE)

\* A variant that looks the root up first and returns an empty graph for a
\* root no relationship mentions.
find_connected_entities_KnownRootOnly(rows, entity_id, max_depth, rel_types) ==
    LET known == \E i \in DOMAIN rows :
                    \/ NodeKey(rows[i].from_type, rows[i].from_id) = NodeKey("entity", entity_id)
                    \/ NodeKey(rows[i].to_type, rows[i].to_id) = NodeKey("entity", entity_id)
        t     == IF known
                 THEN traverse(rows, max_depth, rel_types, EmptyTraversal,
                               NodeKey("entity", entity_id), 0)
                 ELSE EmptyTraversal
    IN  [nodes       |-> t.nodes,
         edges       |-> t.edges,
         total_nodes |-> Cardinality(t.nodes),
         total_edges |-> Len(t.edges),
         visits      |-> t.visits]

find_connected_entities(rows, entity_id, max_depth, rel_types) ==
    LET t == traverse(rows, max_depth, rel_types, EmptyTraversal,
                      NodeKey("entity", entity_id), 0)
    IN  [nodes       |-> t.nodes,
         edges       |-> t.edges,
         total_nodes |-> Cardinality(t.nodes),
         total_edges |-> Len(t.edges),
         visits      |-> t.visits]

FindConnectedEntities(entity_id, max_depth, rel_types) ==
    /\ ret' = [op        |-> "find_connected_entities",
               entity_id |-> entity_id,
               max_depth |-> max_depth,
               rel_types |-> rel_types,
               value     |-> find_connected_entities(relationships, entity_id,
                                                     max_depth, rel_types)]
    /\ UNCHANGED <<relationships, uncommitted, calls, entities, rules, risk_scores, verifications>>

----------------------------------------------------------------------------
(* Traversal of the stores that create calls build from the edges below,
   kept by the store in any order *)

MaxEdges == 4

MaxDepth == 2

GraphArgs ==
    <<WithOptions(Edge("entity", 1, "property", 1, "owns"), "marion_pa", None, None, Some(80)),
      WithOptions(Edge("person", 1, "entity", 1, "agent_for"), "sunbiz", None, None, None),
      WithOptions(Edge("entity", 1, "entity", 2, "owns"), "sunbiz", None, None, None),
      WithOptions(Edge("person", 1, "entity", 2, "agent_for"), "sunbiz", None, None, None),
      WithOptions(Edge("entity", 2, "property", 1, "owns"), "marion_pa", None, None, None),
      WithOptions(Edge("entity", 1, "entity", 1, "owns"), "sunbiz", None, None, None),
      WithOptions(Edge("entity", 1, "property", 1, "owns"), "marion_pa", None, ClosedOn, None)>>

\* The table after creating the edges GraphArgs[i], i in chosen, in turn.
StoreOf(chosen) ==
    LET picked == SelectSeq([i \in DOMAIN GraphArgs |-> i], LAMBDA i : i \in chosen)
    IN  [k \in DOMAIN picked |-> NewRelationship(k, GraphArgs[picked[k]])]

\* The table in another order: row order[i] comes i-th.
InOrder(rows, order) == [i \in DOMAIN order |-> rows[order[i]]]

Orders(n) == {o \in [1..n -> 1..n] : \A i, j \in 1..n : i # j => o[i] # o[j]}

RootIds == {1, 2, 3}

Depths == (0 - 1) .. MaxDepth

RelTypeFilters == {None, Some(<<>>), Some(<<"owns">>)}

InitGraph ==
    /\ \E chosen \in SUBSET DOMAIN GraphArgs :
          /\ Cardinality(chosen) <= MaxEdges
          /\ \E order \in Orders(Cardinality(chosen)) :
                relationships = InOrder(StoreOf(chosen), order)
    /\ uncommitted = [s \in Sessions |-> {}]
    /\ calls = [s \in Sessions |-> NoCall]
    /\ entities = <<>>
    /\ rules = <<>>
    /\ risk_scores = <<>>
    /\ verifications = <<>>
    /\ ret = NoReturn

NextGraph ==
    \E entity_id \in RootIds, max_depth \in Depths, rel_types \in RelTypeFilters :
        FindConnectedEntities(entity_id, max_depth, rel_types)

SpecGraph == InitGraph /\ [][NextGraph]_vars

----------------------------------------------------------------------------
(* scoring/engine.py: grade_score, RuleRegistry *)

grade_score_Exclusive(score) ==
    IF score < 20 THEN "A"
    ELSE IF score < 40 THEN "B"
    ELSE IF score < 60 THEN "C"
    ELSE IF score < 80 THEN "D"
    ELSE "F"

grade_score(score) ==
    IF score <= 20 THEN "A"
    ELSE IF score <= 40 THEN "B"
    ELSE IF score <= 60 THEN "C"
    ELSE IF score <= 80 THEN "D"
    ELSE "F"

\* str.upper() on the status strings the entities below carry.
Upper(str) ==
    CASE str = "dissolved" -> "DISSOLVED"
      [] str = "Inactive"  -> "INACTIVE"
      [] OTHER             -> str

\* The lambdas of the default rules; each gives the truth value Python
\* takes from the lambda's result (None, 0 and "" are falsy).
NEW_ENTITY_LT_90_DAYS_Inclusive(ctx) ==
    ctx.entity_age_days # None /\ ctx.entity_age_days[1] <= 90

NEW_ENTITY_LT_90_DAYS(ctx) ==
    ctx.entity_age_days # None /\ ctx.entity_age_days[1] < 90

NEW_ENTITY_LT_30_DAYS(ctx) ==
    ctx.entity_age_days # None /\ ctx.entity_age_days[1] < 30

NO_PRIMARY_ADDRESS(ctx) == ctx.entity.primary_address_id = None

INACTIVE_STATUS(ctx) ==
    /\ ctx.entity.status # None
    /\ ctx.entity.status[1] # ""
    /\ Upper(ctx.entity.status[1]) \in {"INACTIVE", "DISSOLVED"}

OWNS_GT_10_PROPERTIES(ctx) == ctx.property_count > 10

OWNS_GT_25_PROPERTIES_AtLeast(ctx) == ctx.property_count >= 25

OWNS_GT_25_PROPERTIES(ctx) == ctx.property_count > 25

NO_PROPERTY_OWNERSHIP(ctx) ==
    /\ ctx.property_count = 0
    /\ TruthyInt(ctx.entity_age_days)
    /\ ctx.entity_age_days[1] > 365

AGENT_REPRESENTS_GT_50_ENTITIES(ctx) == ctx.agent_entity_count > 50

ADDRESS_GT_20_ENTITIES(ctx) == ctx.address_entity_count > 20

ADDRESS_GT_5_ENTITIES_NEW(ctx) ==
    /\ ctx.address_entity_count > 5
    /\ TruthyInt(ctx.entity_age_days)
    /\ ctx.entity_age_days[1] < 180

Rule(name, weight, category) ==
    [name |-> name, weight |-> weight, category |-> category, fn |-> name]

\* RuleRegistry._register_default_rules: _rules after __init__.
DefaultRules ==
    <<Rule("NEW_ENTITY_LT_90_DAYS", 10, "entity"),
      Rule("NEW_ENTITY_LT_30_DAYS", 15, "entity"),
      Rule("NO_PRIMARY_ADDRESS", 5, "entity"),
      Rule("INACTIVE_STATUS", 8, "entity"),
      Rule("OWNS_GT_10_PROPERTIES", 10, "property"),
      Rule("OWNS_GT_25_PROPERTIES", 20, "property"),
      Rule("NO_PROPERTY_OWNERSHIP", 5, "property"),
      Rule("AGENT_REPRESENTS_GT_50_ENTITIES", 15, "relationships"),
      Rule("ADDRESS_GT_20_ENTITIES", 12, "relationships"),
      Rule("ADDRESS_GT_5_ENTITIES_NEW", 8, "relationships")>>

\* rule.fn(ctx) raises: only a registered rule whose fn is "RAISES" does.
Raises(rule, ctx) == rule.fn = "RAISES"

\* rule.fn(ctx) returns a truthy value.
Holds(rule, ctx) ==
    CASE rule.fn = "NEW_ENTITY_LT_90_DAYS"           -> NEW_ENTITY_LT_90_DAYS(ctx)
      [] rule.fn = "NEW_ENTITY_LT_30_DAYS"           -> NEW_ENTITY_LT_30_DAYS(ctx)
      [] rule.fn = "NO_PRIMARY_ADDRESS"              -> NO_PRIMARY_ADDRESS(ctx)
      [] rule.fn = "INACTIVE_STATUS"                 -> INACTIVE_STATUS(ctx)
      [] rule.fn = "OWNS_GT_10_PROPERTIES"           -> OWNS_GT_10_PROPERTIES(ctx)
      [] rule.fn = "OWNS_GT_25_PROPERTIES"           -> OWNS_GT_25_PROPERTIES(ctx)
      [] rule.fn = "NO_PROPERTY_OWNERSHIP"           -> NO_PROPERTY_OWNERSHIP(ctx)
      [] rule.fn = "AGENT_REPRESENTS_GT_50_ENTITIES" -> AGENT_REPRESENTS_GT_50_ENTITIES(ctx)
      [] rule.fn = "ADDRESS_GT_20_ENTITIES"          -> ADDRESS_GT_20_ENTITIES(ctx)
      [] rule.fn = "ADDRESS_GT_5_ENTITIES_NEW"       -> ADDRESS_GT_5_ENTITIES_NEW(ctx)
      [] rule.fn = "ALWAYS"                          -> TRUE
      [] OTHER                                       -> FALSE

\* RuleRegistry.get_rules(): a copy of _rules, or the rules of a category.
get_rules(registered, category) ==
    IF category # None /\ category[1] # ""
    THEN SelectSeq(registered, LAMBDA rule : rule.category = category[1])
    ELSE registered

----------------------------------------------------------------------------
(* ScoringEngine *)

Today == 20000

get_entities_at_address(ents, address_id) ==
    LET found == SelectSeq(ents, LAMBDA e : e.primary_address_id = Some(address_id))
    IN  [i \in DOMAIN found |-> found[i].id]

build_context_AnyTarget(entity, rels, ents) ==
    [entity               |-> entity,
     property_count       |->
        Len(get_outgoing_relationships(rels, "entity", entity.id, Some("owns"), TRUE)),
     entity_age_days      |->
        IF entity.formation_date # None
        THEN Some(Today - entity.formation_date[1]) ELSE None,
     agent_entity_count   |->
        IF TruthyInt(entity.registered_agent_id)
        THEN Len(get_outgoing_relationships(rels, "person",
                     entity.registered_agent_id[1], Some("agent_for"), TRUE))
        ELSE 0,
     address_entity_count |->
        IF TruthyInt(entity.primary_address_id)
        THEN Len(get_entities_at_address(ents, entity.primary_address_id[1]))
        ELSE 0]

\* ScoringEngine._build_context
build_context(entity, rels, ents) ==
    [entity               |-> entity,
     property_count       |->
        Len(SelectSeq(get_outgoing_relationships(rels, "entity", entity.id,
                                                 Some("owns"), TRUE),
                      LAMBDA r : r.to_type = "property")),
     entity_age_days      |->
        IF entity.formation_date # None
        THEN Some(Today - entity.formation_date[1]) ELSE None,
     agent_entity_count   |->
        IF TruthyInt(entity.registered_agent_id)
        THEN Len(SelectSeq(get_outgoing_relationships(rels, "person",
                               entity.registered_agent_id[1], Some("agent_for"), TRUE),
                           LAMBDA r : r.to_type = "entity"))
        ELSE 0,
     address_entity_count |->
        IF TruthyInt(entity.primary_address_id)
        THEN Len(get_entities_at_address(ents, entity.primary_address_id[1]))
        ELSE 0]

\* One turn of the loop over the rules: acc is (score, triggered_flags,
\* rule_details) so far.
EvaluateRule_FirstMatchOnly(acc, rule, ctx) ==
    IF ~Raises(rule, ctx) /\ Holds(rule, ctx) /\ acc.flags = <<>>
    THEN [score        |-> acc.score + rule.weight,
          flags        |-> Append(acc.flags, rule.name),
          rule_details |-> Append(acc.rule_details,
                                  [name |-> rule.name, weight |-> rule.weight,
                                   category |-> rule.category])]
    ELSE acc

EvaluateRule_RaisingTriggers(acc, rule, ctx) ==
    IF Raises(rule, ctx) \/ Holds(rule, ctx)
    THEN [score        |-> acc.score + rule.weight,
          flags        |-> Append(acc.flags, rule.name),
          rule_details |-> Append(acc.rule_details,
                                  [name |-> rule.name, weight |-> rule.weight,
                                   category |-> rule.category])]
    ELSE acc

EvaluateRule_Prepends(acc, rule, ctx) ==
    IF ~Raises(rule, ctx) /\ Holds(rule, ctx)
    THEN [score        |-> acc.score + rule.weight,
          flags        |-> <<rule.name>> \o acc.flags,
          rule_details |-> Append(acc.rule_details,
                                  [name |-> rule.name, weight |-> rule.weight,
                                   category |-> rule.category])]
    ELSE acc

EvaluateRule(acc, rule, ctx) ==
    IF ~Raises(rule, ctx) /\ Holds(rule, ctx)
    THEN [score        |-> acc.score + rule.weight,
          flags        |-> Append(acc.flags, rule.name),
          rule_details |-> Append(acc.rule_details,
                                  [name |-> rule.name, weight |-> rule.weight,
                                   category |-> rule.category])]
    ELSE acc

RECURSIVE EvaluateRules(_, _, _)
EvaluateRules(acc, todo, ctx) ==
    IF todo = <<>> THEN acc
    ELSE EvaluateRules(EvaluateRule(acc, Head(todo), ctx), Tail(todo), ctx)

\* The server default now() of calculated_at: the start of the inserting
\* transaction. A call's transaction starts after the commit of every call
\* that completed before it, so its time is later than every stored one.
Now(scores) ==
    IF scores = <<>> THEN 1
    ELSE 1 + (CHOOSE t \in {scores[i].calculated_at : i \in DOMAIN scores} :
                \A i \in DOMAIN scores : scores[i].calculated_at <= t)

\* ScoringEngine._save_score: the table after db.add and db.commit. The
\* score column is Numeric(5, 2), which holds the integer scores of the
\* rule sets below exactly.
save_score_Upsert(scores, entity_id, score, grade, flags) ==
    LET row == [id |-> Len(scores) + 1, entity_id |-> entity_id,
                score |-> score, grade |-> grade, flags |-> flags,
                calculated_at |-> Now(scores)]
    IN  IF \E i \in DOMAIN scores : scores[i].entity_id = entity_id
        THEN [i \in DOMAIN scores |->
                 IF scores[i].entity_id = entity_id
                 THEN [row EXCEPT !.id = scores[i].id] ELSE scores[i]]
        ELSE Append(scores, row)

save_score(scores, entity_id, score, grade, flags) ==
    Append(scores, [id |-> Len(scores) + 1, entity_id |-> entity_id,
                    score |-> score, grade |-> grade, flags |-> flags,
                    calculated_at |-> Now(scores)])

\* What score_entity does when the entity query finds no row.
NotFound_ReturnsNothing(scores, entity_id) ==
    [raised |-> "", value |-> None, risk_scores |-> scores]

NotFound(scores, entity_id) ==
    [raised |-> "ValueError", risk_scores |-> scores]

score_entity_Cached(ents, rels, registered, scores, entity_id) ==
    IF entity_id \notin DOMAIN ents
    THEN NotFound(scores, entity_id)
    ELSE LET ctx    == build_context(ents[entity_id], rels, ents)
             fresh  == EvaluateRules([score |-> 0, flags |-> <<>>, rule_details |-> <<>>],
                                     get_rules(registered, None), ctx)
             mine   == SelectSeq(scores, LAMBDA row : row.entity_id = entity_id)
             result == IF mine = <<>> THEN fresh
                       ELSE [fresh EXCEPT !.score = mine[Len(mine)].score,
                                          !.flags = mine[Len(mine)].flags]
             grade  == grade_score(result.score)
         IN  [raised      |-> "",
              value       |-> [entity_id    |-> entity_id,
                               score        |-> result.score,
                               grade        |-> grade,
                               flags        |-> result.flags,
                               rule_details |-> result.rule_details,
                               context      |->
                                  [property_count       |-> ctx.property_count,
                                   entity_age_days      |-> ctx.entity_age_days,
                                   agent_entity_count   |-> ctx.agent_entity_count,
                                   address_entity_count |-> ctx.address_entity_count]],
              risk_scores |-> save_score(scores, entity_id, result.score, grade,
                                         result.flags)]

\* ScoringEngine.score_entity: what it raises or returns, and the
\* risk_scores table it leaves.
score_entity(ents, rels, registered, scores, entity_id) ==
    IF entity_id \notin DOMAIN ents
    THEN NotFound(scores, entity_id)
    ELSE LET ctx    == build_context(ents[entity_id], rels, ents)
             result == EvaluateRules([score |-> 0, flags |-> <<>>, rule_details |-> <<>>],
                                     get_rules(registered, None), ctx)
             grade  == grade_score(result.score)
         IN  [raised      |-> "",
              value       |-> [entity_id    |-> entity_id,
                               score        |-> result.score,
                               grade        |-> grade,
                               flags        |-> result.flags,
                               rule_details |-> result.rule_details,
                               context      |->
                                  [property_count       |-> ctx.property_count,
                                   entity_age_days      |-> ctx.entity_age_days,
                                   agent_entity_count   |-> ctx.agent_entity_count,
                                   address_entity_count |-> ctx.address_entity_count]],
              risk_scores |-> save_score(scores, entity_id, result.score, grade,
                                         result.flags)]

\* The first row of the query of get_latest_score: the rows of the entity
\* ordered by calculated_at, descending.
LatestRow_Oldest(mine) ==
    CHOOSE r \in Range(mine) : \A o \in Range(mine) : r.calculated_at <= o.calculated_at

LatestRow(mine) ==
    CHOOSE r \in Range(mine) : \A o \in Range(mine) : o.calculated_at <= r.calculated_at

\* ScoringEngine.get_latest_score
get_latest_score(scores, entity_id) ==
    LET mine == SelectSeq(scores, LAMBDA r : r.entity_id = entity_id) IN
    IF mine = <<>> THEN None
    ELSE LET latest_score == LatestRow(mine)
         IN  Some([entity_id     |-> entity_id,
                   score         |-> latest_score.score,
                   grade         |-> latest_score.grade,
                   flags         |-> latest_score.flags,
                   calculated_at |-> latest_score.calculated_at])

\* One turn of the loop of batch_score_entities: acc is (what propagated,
\* results, risk_scores) so far.
BatchItem_Propagates(acc, ents, rels, registered, entity_id) ==
    LET outcome == score_entity(ents, rels, registered, acc.risk_scores, entity_id) IN
    IF acc.raised # "" THEN acc
    ELSE IF outcome.raised # ""
    THEN [acc EXCEPT !.raised = outcome.raised]
    ELSE [raised      |-> "",
          results     |-> Append(acc.results, outcome.value),
          risk_scores |-> outcome.risk_scores]

BatchItem(acc, ents, rels, registered, entity_id) ==
    LET outcome == score_entity(ents, rels, registered, acc.risk_scores, entity_id) IN
    IF outcome.raised # ""
    THEN [acc EXCEPT !.risk_scores = outcome.risk_scores]
    ELSE [raised      |-> "",
          results     |-> Append(acc.results, outcome.value),
          risk_scores |-> outcome.risk_scores]

RECURSIVE BatchLoop(_, _, _, _, _)
BatchLoop(acc, ents, rels, registered, entity_ids) ==
    IF entity_ids = <<>> THEN acc
    ELSE BatchLoop(BatchItem(acc, ents, rels, registered, Head(entity_ids)),
                   ents, rels, registered, Tail(entity_ids))

\* ScoringEngine.batch_score_entities
batch_score_entities(ents, rels, registered, scores, entity_ids) ==
    BatchLoop([raised |-> "", results |-> <<>>, risk_scores |-> scores],
              ents, rels, registered, entity_ids)

ScoreEntity(entity_id) ==
    LET outcome == score_entity(entities, relationships, rules, risk_scores, entity_id) IN
    /\ Len(outcome.risk_scores) <= MaxScores
    /\ risk_scores' = outcome.risk_scores
    /\ ret' = [op        |-> "score_entity",
               entity_id |-> entity_id,
               raised    |-> outcome.raised,
               value     |-> IF outcome.raised = "" THEN outcome.value ELSE None]
    /\ UNCHANGED <<relationships, uncommitted, calls, entities, rules, verifications>>

BatchScoreEntities(entity_ids) ==
    LET outcome == batch_score_entities(entities, relationships, rules, risk_scores,
                                        entity_ids) IN
    /\ Len(outcome.risk_scores) <= MaxScores
    /\ risk_scores' = outcome.risk_scores
    /\ ret' = [op         |-> "batch_score_entities",
               entity_ids |-> entity_ids,
               raised     |-> outcome.raised,
               value      |-> outcome.results]
    /\ UNCHANGED <<relationships, uncommitted, calls, entities, rules, verifications>>

GetLatestScore(entity_id) ==
    /\ ret' = [op        |-> "get_latest_score",
               entity_id |-> entity_id,
               value     |-> get_latest_score(risk_scores, entity_id)]
    /\ UNCHANGED <<relationships, uncommitted, calls, entities, rules, risk_scores, verifications>>

\* RuleRegistry.register_rule
RegisterRule(rule) ==
    /\ Len(rules) < Len(DefaultRules) + MaxExtraRules
    /\ rules' = Append(rules, rule)
    /\ ret' = [op |-> "register_rule", rule |-> rule]
    /\ UNCHANGED <<relationships, uncommitted, calls, entities, risk_scores, verifications>>

----------------------------------------------------------------------------
(* The data the scoring specifications start from: entity 1 with the
   attributes of a profile, entity 2 with no attribute set, further entities
   at address 1, and the relationships that create calls leave for
   entity 1's properties and for the entities person 1 is agent for. *)

EntityRow(id, status, formation_date, agent, address) ==
    [id |-> id, status |-> status, formation_date |-> formation_date,
     registered_agent_id |-> agent, primary_address_id |-> address]

EntitiesOf(profile) ==
    <<EntityRow(1, profile.status,
                IF profile.age = None THEN None ELSE Some(Today - profile.age[1]),
                profile.agent, profile.address),
      EntityRow(2, None, None, None, None)>>
    \o [k \in 1..profile.neighbours |-> EntityRow(k + 2, Some("ACTIVE"), None, None, Some(1))]

RelationshipsOf(profile) ==
    LET owned  == [k \in 1..profile.properties |->
                     WithOptions(Edge("entity", 1, "property", k, "owns"),
                                 "marion_pa", None, None, Some(80))]
        others == <<WithOptions(Edge("entity", 1, "property", 90, "owns"),
                                "marion_pa", None, ClosedOn, None),
                    WithOptions(Edge("entity", 1, "entity", 2, "owns"),
                                "sunbiz", None, None, None),
                    WithOptions(Edge("person", 1, "property", 1, "owns"),
                                "marion_pa", None, None, None),
                    WithOptions(Edge("person", 1, "property", 1, "agent_for"),
                                "sunbiz", None, None, None),
                    WithOptions(Edge("person", 1, "entity", 90, "agent_for"),
                                "sunbiz", None, ClosedOn, None)>>
        agency == [k \in 1..profile.represented |->
                     WithOptions(Edge("person", 1, "entity", k, "agent_for"),
                                 "sunbiz", None, None, None)]
        args   == owned \o others \o agency
    IN  [k \in DOMAIN args |-> NewRelationship(k, args[k])]

Profiles(ages, statuses, agencies, addresses, properties) ==
    {[age |-> age, status |-> status, agent |-> ag[1], represented |-> ag[2],
      address |-> ad[1], neighbours |-> ad[2], properties |-> props] :
        age \in ages, status \in statuses, ag \in agencies, ad \in addresses,
        props \in properties}

\* Every side of every threshold of the default rules.
AllProfiles ==
    Profiles({None, Some(0), Some(10), Some(29), Some(30), Some(89), Some(90),
              Some(179), Some(180), Some(365), Some(366)},
             {None, Some("ACTIVE"), Some("dissolved"), Some("INACTIVE")},
             {<<None, 51>>, <<Some(1), 50>>, <<Some(1), 51>>},
             {<<None, 20>>, <<Some(1), 0>>, <<Some(1), 4>>, <<Some(1), 5>>,
              <<Some(1), 19>>, <<Some(1), 20>>},
             {0, 10, 11, 25, 26})

FewProfiles ==
    Profiles({None, Some(10)},
             {Some("ACTIVE"), Some("dissolved")},
             {<<None, 0>>},
             {<<None, 0>>, <<Some(1), 5>>},
             {0, 11})

\* The profiles the registry specifications score: the two examples of the
\* scoring scenarios and profiles whose default score is just below each
\* grade bound.
RuleProfiles ==
    Profiles({None, Some(0), Some(10), Some(30), Some(90), Some(366)},
             {Some("ACTIVE"), Some("dissolved")},
             {<<None, 51>>, <<Some(1), 51>>},
             {<<None, 20>>, <<Some(1), 0>>, <<Some(1), 5>>, <<Some(1), 20>>},
             {0, 11, 26})

ScoreProfiles ==
    Profiles({None, Some(10)}, {Some("ACTIVE")}, {<<None, 0>>}, {<<None, 0>>}, {0})

\* Rules that callers register on top of the default ones: two rules whose
\* predicate is true on every context, and one whose predicate raises.
ExtraRules ==
    {[name |-> "EXTRA_ALWAYS", weight |-> 2, category |-> "temporal", fn |-> "ALWAYS"],
     [name |-> "EXTRA_LATER", weight |-> 3, category |-> "entity", fn |-> "ALWAYS"],
     [name |-> "EXTRA_RAISES", weight |-> 4, category |-> "temporal", fn |-> "RAISES"]}

InitScoring(profiles) ==
    /\ \E profile \in profiles :
          /\ entities = EntitiesOf(profile)
          /\ relationships = RelationshipsOf(profile)
    /\ uncommitted = [s \in Sessions |-> {}]
    /\ calls = [s \in Sessions |-> NoCall]
    /\ rules = DefaultRules
    /\ risk_scores = <<>>
    /\ verifications = <<>>
    /\ ret = NoReturn

----------------------------------------------------------------------------
(* Scoring entity 1 under every registry *)

InitRules == InitScoring(RuleProfiles)

NextRules ==
    \/ \E rule \in ExtraRules : RegisterRule(rule)
    \/ ScoreEntity(1)

SpecRules == InitRules /\ [][NextRules]_vars

----------------------------------------------------------------------------
(* The scoring engine's calls in any sequence *)

ScoreIds == {1, 2, 999999}

BatchInputs == UNION {[1..n -> ScoreIds] : n \in 0..MaxBatch}

InitScore == InitScoring(ScoreProfiles)

\* The rule registered between the calls: it changes the score of every
\* entity.
ScoreRules == {rule \in ExtraRules : rule.name = "EXTRA_ALWAYS"}

NextScore ==
    \/ \E rule \in ScoreRules : RegisterRule(rule)
    \/ \E entity_id \in ScoreIds : ScoreEntity(entity_id)
    \/ \E entity_ids \in BatchInputs : BatchScoreEntities(entity_ids)
    \/ \E entity_id \in ScoreIds : GetLatestScore(entity_id)

SpecScore == InitScore /\ [][NextScore]_vars

----------------------------------------------------------------------------
(* Scoring entity 1 on the default rules alone, under every profile *)

InitDefaults == InitScoring(AllProfiles)

NextDefaults == ScoreEntity(1)

SpecDefaults == InitDefaults /\ [][NextDefaults]_vars

----------------------------------------------------------------------------
(* Registering rules in any order, then scoring entity 1 *)

InitRegistry == InitScoring(FewProfiles)

NextRegistry ==
    \/ \E rule \in ExtraRules : RegisterRule(rule)
    \/ ScoreEntity(1)

SpecRegistry == InitRegistry /\ [][NextRegistry]_vars

----------------------------------------------------------------------------
(* A caller of RuleRegistry.get_rules keeps the list it was handed and
   changes it in place *)

MaxEdits == 2

\* The list object get_rules hands out: live tells whether it is _rules
\* itself; items is its content.
get_rules_list_Live(registered, category) ==
    [live  |-> ~(category # None /\ category[1] # ""),
     items |-> get_rules(registered, category)]

get_rules_list(registered, category) ==
    [live |-> FALSE, items |-> get_rules(registered, category)]

GetRules(category) ==
    /\ ret' = [op       |-> "get_rules",
               category |-> category,
               value    |-> get_rules_list(rules, category),
               edits    |-> 0]
    /\ UNCHANGED <<relationships, uncommitted, calls, entities, rules, risk_scores, verifications>>

CALLER_RULE == [name |-> "CALLER_RULE", weight |-> 50, category |-> "entity", fn |-> "ALWAYS"]

Reversed(list) == [i \in DOMAIN list |-> list[Len(list) + 1 - i]]

\* list.append(CALLER_RULE), list.pop(0) (IndexError on an empty list,
\* which changes nothing) and list.reverse().
Edits == {"append", "pop", "reverse"}

Edited(list, edit) ==
    CASE edit = "append"  -> Append(list, CALLER_RULE)
      [] edit = "pop"     -> IF list = <<>> THEN list ELSE Tail(list)
      [] edit = "reverse" -> Reversed(list)

\* The caller changes the list of its last get_rules call in place; a list
\* that is _rules itself changes the registry with it.
EditReturnedList(edit) ==
    /\ ret.op \in {"get_rules", "edit_returned_list"}
    /\ ret.edits < MaxEdits
    /\ LET items == Edited(ret.value.items, edit) IN
          /\ rules' = IF ret.value.live THEN items ELSE rules
          /\ ret' = [op       |-> "edit_returned_list",
                     category |-> ret.category,
                     value    |-> [ret.value EXCEPT !.items = items],
                     edits    |-> ret.edits + 1]
    /\ UNCHANGED <<relationships, uncommitted, calls, entities, risk_scores, verifications>>

Categories == {None, Some(""), Some("entity"), Some("property"), Some("temporal")}

InitGetRules == InitScoring(ScoreProfiles)

NextGetRules ==
    \/ \E rule \in ExtraRules : RegisterRule(rule)
    \/ \E category \in Categories : GetRules(category)
    \/ \E edit \in Edits : EditReturnedList(edit)
    \/ ScoreEntity(1)

SpecGetRules == InitGetRules /\ [][NextGetRules]_vars

----------------------------------------------------------------------------
(* score_entity calls of several sessions, interleaved: each session reads
   the entity, builds the context and evaluates the rules, and later adds
   its row and commits *)

\* The calls a session has completed, each with the id of the row it added.
CompletedBy(s) ==
    IF "completed" \in DOMAIN calls[s] THEN calls[s].completed ELSE <<>>

InFlight == {s \in Sessions : calls[s].pc = "evaluated"}

\* engine.py 172-216: the entity query, the context, the rule loop and the
\* result dict. The session's transaction begins with the entity query, and
\* now() is the time it began.
ScoreEvaluate(s, entity_id) ==
    /\ calls[s].pc = "idle"
    /\ Len(risk_scores) + Cardinality(InFlight) < MaxScores
    /\ LET outcome == score_entity(entities, relationships, rules, risk_scores, entity_id) IN
         IF outcome.raised # ""
         THEN /\ ret' = [op |-> "score_entity", entity_id |-> entity_id,
                         raised |-> outcome.raised, value |-> None, session |-> s]
              /\ UNCHANGED calls
         ELSE /\ calls' = [calls EXCEPT ![s] =
                              [pc        |-> "evaluated",
                               entity_id |-> entity_id,
                               result    |-> outcome.value,
                               started   |-> Now(risk_scores),
                               completed |-> CompletedBy(s)]]
              /\ UNCHANGED ret
    /\ UNCHANGED <<relationships, uncommitted, entities, rules, risk_scores, verifications>>

\* db.add(risk_score); db.commit(): an INSERT into the table as it is at
\* the commit, with the next id of the sequence.
InsertScore_OverSnapshot(scores, call) ==
    Append(SelectSeq(scores, LAMBDA row : row.calculated_at < call.started),
           [id |-> Len(scores) + 1, entity_id |-> call.entity_id,
            score |-> call.result.score, grade |-> call.result.grade,
            flags |-> call.result.flags, calculated_at |-> call.started])

InsertScore(scores, call) ==
    LET saved == save_score(scores, call.entity_id, call.result.score,
                            call.result.grade, call.result.flags)
    IN  [saved EXCEPT ![Len(saved)].calculated_at = call.started]

\* engine.py 216-218 and 262-276: _save_score, then return result
ScoreSave(s) ==
    /\ calls[s].pc = "evaluated"
    /\ LET saved == InsertScore(risk_scores, calls[s]) IN
          /\ risk_scores' = saved
          /\ calls' = [calls EXCEPT ![s] =
                          [pc        |-> "idle",
                           completed |-> Append(CompletedBy(s),
                                                [result |-> calls[s].result,
                                                 row_id |-> saved[Len(saved)].id])]]
    /\ ret' = [op |-> "score_entity", entity_id |-> calls[s].entity_id,
               raised |-> "", value |-> calls[s].result, session |-> s]
    /\ UNCHANGED <<relationships, uncommitted, entities, rules, verifications>>

NextConcurrent ==
    \/ \E s \in Sessions, entity_id \in ScoreIds : ScoreEvaluate(s, entity_id)
    \/ \E s \in Sessions : ScoreSave(s)

SpecConcurrent == InitScore /\ [][NextConcurrent]_vars

----------------------------------------------------------------------------
(* Registering rules of any integer weight, then scoring: register_rule
   appends the rule it is given, whatever its weight *)

WeightRules ==
    ExtraRules \cup
    {[name |-> "EXTRA_MITIGATING", weight |-> 0 - 10, category |-> "entity", fn |-> "ALWAYS"],
     [name |-> "EXTRA_NEUTRAL", weight |-> 0, category |-> "entity", fn |-> "ALWAYS"]}

NextWeights ==
    \/ \E rule \in WeightRules : RegisterRule(rule)
    \/ \E entity_id \in ScoreIds : ScoreEntity(entity_id)

SpecWeights == InitScore /\ [][NextWeights]_vars

----------------------------------------------------------------------------
(* Scoring between changes of the store: relationships are created and
   closed, entities are inserted and updated, and entity 1 is scored in
   between *)

\* EntityRepository.upsert_entity for the entity of an external id: a new
\* row with the defaults, or the row found with each default set on it.
upsert_entity(ents, id, defaults) ==
    LET entity == IF id \in DOMAIN ents THEN ents[id]
                  ELSE EntityRow(id, None, None, None, None)
        stored == [f \in DOMAIN entity |->
                     IF f \in DOMAIN defaults THEN defaults[f] ELSE entity[f]]
    IN  IF id \in DOMAIN ents THEN [ents EXCEPT ![id] = stored]
        ELSE Append(ents, stored)

UpsertEntity(id, defaults) ==
    /\ id \in 1..(Len(entities) + 1)
    /\ entities' = upsert_entity(entities, id, defaults)
    /\ ret' = [op |-> "upsert_entity", id |-> id, defaults |-> defaults]
    /\ UNCHANGED <<relationships, uncommitted, calls, rules, risk_scores, verifications>>

\* The ids and defaults of the upserts: entity 1 and an entity not yet stored.
UpsertIds == {1, 3}

UpsertDefaults ==
    {[primary_address_id |-> Some(1)],
     [registered_agent_id |-> Some(1), status |-> Some("ACTIVE")]}

\* The relationships created between the scoring calls.
ContextArgs ==
    {WithOptions(Edge("entity", 1, "property", 1, "owns"), "marion_pa", None, None, Some(80)),
     WithOptions(Edge("person", 1, "entity", 1, "agent_for"), "sunbiz", None, None, None)}

InitContext ==
    /\ entities = <<EntityRow(1, Some("ACTIVE"), Some(Today - 366), None, None),
                    EntityRow(2, None, None, None, None)>>
    /\ relationships = <<>>
    /\ uncommitted = [s \in Sessions |-> {}]
    /\ calls = [s \in Sessions |-> NoCall]
    /\ rules = DefaultRules
    /\ risk_scores = <<>>
    /\ verifications = <<>>
    /\ ret = NoReturn

NextContext ==
    \/ \E a \in ContextArgs : CreateRelationship(a)
    \/ \E id \in 1..MaxRels : CloseRelationship(id, ClosedLater)
    \/ \E id \in UpsertIds, defaults \in UpsertDefaults : UpsertEntity(id, defaults)
    \/ ScoreEntity(1)

SpecContext == InitContext /\ [][NextContext]_vars

----------------------------------------------------------------------------
(* Traversal of stores with cycles, a self-loop, parallel relationships and
   closed rows, from roots with and without relationships, to depths below
   zero and beyond the size of the store *)

CycleArgs ==
    <<WithOptions(Edge("entity", 1, "property", 1, "owns"), "marion_pa", None, None, Some(80)),
      WithOptions(Edge("entity", 2, "property", 1, "owns"), "marion_pa", None, None, None),
      WithOptions(Edge("entity", 1, "entity", 2, "owns"), "sunbiz", None, None, None),
      WithOptions(Edge("person", 1, "entity", 2, "agent_for"), "sunbiz", None, None, None),
      WithOptions(Edge("entity", 1, "entity", 1, "owns"), "sunbiz", None, None, None),
      WithOptions(Edge("entity", 1, "property", 1, "officer_of"), "sunbiz", None, None, None),
      WithOptions(Edge("entity", 2, "property", 2, "owns"), "marion_pa", None, ClosedOn, None)>>

\* The table after creating the chosen edges of CycleArgs in turn.
CycleStore(chosen) ==
    LET picked == SelectSeq([i \in DOMAIN CycleArgs |-> i], LAMBDA i : i \in chosen)
    IN  [k \in DOMAIN picked |-> NewRelationship(k, CycleArgs[picked[k]])]

\* Depths from below zero to beyond the number of nodes of any store.
CycleDepths == ((0 - 1) .. MaxDepth) \cup {MaxDepth + 5}

InitCycles ==
    /\ \E chosen \in SUBSET DOMAIN CycleArgs :
          \/ relationships = CycleStore(chosen)
          \/ relationships = InOrder(CycleStore(chosen),
                                     [i \in 1..Cardinality(chosen) |->
                                         Cardinality(chosen) + 1 - i])
    /\ uncommitted = [s \in Sessions |-> {}]
    /\ calls = [s \in Sessions |-> NoCall]
    /\ entities = <<>>
    /\ rules = <<>>
    /\ risk_scores = <<>>
    /\ verifications = <<>>
    /\ ret = NoReturn

NextCycles ==
    \E entity_id \in RootIds, max_depth \in CycleDepths, rel_types \in RelTypeFilters :
        FindConnectedEntities(entity_id, max_depth, rel_types)

SpecCycles == InitCycles /\ [][NextCycles]_vars

----------------------------------------------------------------------------
(* verification/service.py, verification/repository.py: the verification
   requests of users, their documents and liveness checks, and the review *)

MaxRequests == 2

MaxUploads == 1

\* VerificationRepository.create: the table with the new PENDING row.
create_verification(rows, user_id) ==
    Append(rows, [id              |-> Len(rows) + 1,
                  user_id         |-> user_id,
                  status          |-> "pending",
                  submitted_at    |-> None,
                  reviewed_by     |-> None,
                  documents       |-> 0,
                  liveness_checks |-> 0])

\* VerificationRepository.update_status on a row that exists.
update_status(rows, verification_id, status, reviewed_by) ==
    [rows EXCEPT ![verification_id] =
        [@ EXCEPT !.status       = status,
                  !.submitted_at = IF status = "submitted" THEN Some(Today) ELSE @,
                  !.reviewed_by  = IF TruthyInt(reviewed_by) THEN reviewed_by ELSE @]]

\* What a call of the service raised or returned.
VerificationReturn(op, verification_id, raised, rows) ==
    [op              |-> op,
     verification_id |-> verification_id,
     raised          |-> raised,
     status          |-> IF raised = "" THEN Some(rows[verification_id].status) ELSE None]

\* VerificationService.create_verification_request
CreateVerificationRequest(user_id) ==
    /\ Len(verifications) < MaxRequests
    /\ verifications' = create_verification(verifications, user_id)
    /\ ret' = VerificationReturn("create_verification_request", Len(verifications) + 1,
                                 "", verifications')
    /\ UNCHANGED <<relationships, uncommitted, calls, entities, rules, risk_scores>>

\* The values of DocumentType.
DocumentTypes ==
    {"drivers_license", "passport", "national_id", "utility_bill", "bank_statement",
     "tax_document", "other"}

\* VerificationService.upload_document
UploadDocument(verification_id, document_type) ==
    /\ IF verification_id \notin DOMAIN verifications \/ document_type \notin DocumentTypes
       THEN /\ ret' = VerificationReturn("upload_document", verification_id,
                                         "ValueError", verifications)
            /\ UNCHANGED verifications
       ELSE /\ verifications[verification_id].documents < MaxUploads
            /\ LET stored == [verifications EXCEPT ![verification_id].documents = @ + 1] IN
                  verifications' =
                     IF verifications[verification_id].status = "pending"
                     THEN update_status(stored, verification_id, "in_progress", None)
                     ELSE stored
            /\ ret' = VerificationReturn("upload_document", verification_id, "",
                                         verifications')
    /\ UNCHANGED <<relationships, uncommitted, calls, entities, rules, risk_scores>>

\* VerificationService.verify_liveness
VerifyLiveness(verification_id) ==
    /\ IF verification_id \notin DOMAIN verifications
       THEN /\ ret' = VerificationReturn("verify_liveness", verification_id,
                                         "ValueError", verifications)
            /\ UNCHANGED verifications
       ELSE /\ verifications[verification_id].liveness_checks < MaxUploads
            /\ verifications' =
                  [verifications EXCEPT ![verification_id].liveness_checks = @ + 1]
            /\ ret' = VerificationReturn("verify_liveness", verification_id, "",
                                         verifications')
    /\ UNCHANGED <<relationships, uncommitted, calls, entities, rules, risk_scores>>

\* VerificationService.submit_for_review
SubmitForReview(verification_id) ==
    /\ IF \/ verification_id \notin DOMAIN verifications
          \/ verifications[verification_id].status \in {"submitted", "approved", "rejected"}
          \/ verifications[verification_id].documents = 0
          \/ verifications[verification_id].liveness_checks = 0
       THEN /\ ret' = VerificationReturn("submit_for_review", verification_id,
                                         "ValueError", verifications)
            /\ UNCHANGED verifications
       ELSE /\ verifications' = update_status(verifications, verification_id,
                                              "submitted", None)
            /\ ret' = VerificationReturn("submit_for_review", verification_id, "",
                                         verifications')
    /\ UNCHANGED <<relationships, uncommitted, calls, entities, rules, risk_scores>>

\* status_mapping of admin_review
status_mapping ==
    [approve |-> "approved", reject |-> "rejected", request_more_info |-> "needs_review"]

\* VerificationService.admin_review; the requests here are linked to no
\* entity and no person, so an approval updates no other table.
AdminReview(verification_id, admin_user_id, decision) ==
    /\ IF verification_id \notin DOMAIN verifications \/ decision \notin DOMAIN status_mapping
       THEN /\ ret' = VerificationReturn("admin_review", verification_id,
                                         "ValueError", verifications)
            /\ UNCHANGED verifications
       ELSE /\ verifications' = update_status(verifications, verification_id,
                                              status_mapping[decision],
                                              Some(admin_user_id))
            /\ ret' = VerificationReturn("admin_review", verification_id, "",
                                         verifications')
    /\ UNCHANGED <<relationships, uncommitted, calls, entities, rules, risk_scores>>

\* The ids the calls name: the requests there can be, and one that is never
\* created.
VerificationIds == (1..MaxRequests) \cup {999999}

Decisions == {"approve", "reject", "request_more_info", "escalate"}

InitVerification ==
    /\ relationships = <<>>
    /\ uncommitted = [s \in Sessions |-> {}]
    /\ calls = [s \in Sessions |-> NoCall]
    /\ entities = <<>>
    /\ rules = <<>>
    /\ risk_scores = <<>>
    /\ verifications = <<>>
    /\ ret = NoReturn

NextVerification ==
    \/ CreateVerificationRequest(1)
    \/ \E id \in VerificationIds, document_type \in {"passport", "selfie"} :
          UploadDocument(id, document_type)
    \/ \E id \in VerificationIds : VerifyLiveness(id)
    \/ \E id \in VerificationIds : SubmitForReview(id)
    \/ \E id \in VerificationIds, decision \in Decisions : AdminReview(id, 7, decision)

SpecVerification == InitVerification /\ [][NextVerification]_vars

----------------------------------------------------------------------------
(* C1 *)

NoDuplicateActive(rows) ==
    \A i, j \in DOMAIN rows :
        (i # j /\ IsActive(rows[i]) /\ IsActive(rows[j]))
            => Identity(rows[i]) # Identity(rows[j])

ActiveWithIdentity(rows, a) ==
    {r \in Range(rows) : IsActive(r) /\ Identity(r) = Identity(a)}

\* C1: in sequential use, a create call that finds an active relationship
\* with its identity tuple returns that row as it is stored and leaves the
\* table unchanged, and the table never holds two active rows with the
\* same identity tuple.
C1_IdempotentCreate ==
    [][ /\ NoDuplicateActive(relationships')
        /\ (ret'.op = "create_relationship"
             /\ ActiveWithIdentity(relationships, ret'.args) # {})
            => /\ relationships' = relationships
               /\ ret'.value \in ActiveWithIdentity(relationships, ret'.args)
      ]_vars

\* A create call found an active relationship with its identity, made by a
\* call with other options, and returned it.
C1_Witness ==
    /\ ret.op = "create_relationship"
    /\ ret.value \in ActiveWithIdentity(relationships, ret.args)
    /\ ret.value.source_system # ret.args.source_system
    /\ Len(relationships) >= 2

----------------------------------------------------------------------------
(* C2 *)

\* C2: when create calls for one identity tuple run concurrently, each in
\* its own session, the committed table never holds two active
\* relationships with that identity tuple.
C2_NoConcurrentDuplicate == NoDuplicateActive(Committed)

----------------------------------------------------------------------------
(* C5 - C8: find_connected_entities *)

IsFind == ret.op = "find_connected_entities"

Root == NodeKey("entity", ret.entity_id)

Views(rels) == [i \in DOMAIN rels |-> EdgeView(rels[i])]

\* The active relationships leaving and entering a node that the filter of
\* the last call lets through, in store order.
AllowedFrom(key) ==
    SelectSeq(relationships, LAMBDA r :
        /\ NodeKey(r.from_type, r.from_id) = key
        /\ IsActive(r)
        /\ ~FilteredOut(r, ret.rel_types))

AllowedTo(key) ==
    SelectSeq(relationships, LAMBDA r :
        /\ NodeKey(r.to_type, r.to_id) = key
        /\ IsActive(r)
        /\ ~FilteredOut(r, ret.rel_types))

NodeKeys(result) == {NodeKey(n.type, n.id) : n \in result.nodes}

\* C5: within one call no (type, id) node is recorded and has its
\* relationships fetched more than once, on cycles and self-loops too.
C5_VisitedAtMostOnce ==
    IsFind =>
        /\ \A i, j \in DOMAIN ret.value.visits :
              i # j => ret.value.visits[i] # ret.value.visits[j]
        /\ Range(ret.value.visits) = NodeKeys(ret.value)
        /\ Len(ret.value.visits) = ret.value.total_nodes

\* Three nodes on a cycle were visited and a self-loop was emitted: every
\* node was reached over more than one path.
C5_Witness ==
    /\ IsFind
    /\ Len(ret.value.visits) >= 3
    /\ ret.value.total_edges >= 8
    /\ \E e \in Range(ret.value.edges) : e.from = e.to

\* C6: with max_depth = 0 the result has exactly one node, the root at
\* depth 0, and its edges are the root's own active outgoing relationships
\* followed by its active incoming ones; no neighbour becomes a node.
C6_DepthZeroRootOnly ==
    (IsFind /\ ret.max_depth = 0) =>
        /\ ret.value.nodes = {[type |-> "entity", id |-> ret.entity_id, depth |-> 0]}
        /\ ret.value.edges = Views(AllowedFrom(Root)) \o Views(AllowedTo(Root))

\* A call with max_depth = 0 and no filter on a root that has an outgoing
\* and an incoming relationship to other nodes.
C6_Witness ==
    /\ IsFind
    /\ ret.max_depth = 0
    /\ ret.rel_types = None
    /\ \E e \in Range(ret.value.edges) : e.from = Root /\ e.to # Root
    /\ \E e \in Range(ret.value.edges) : e.to = Root /\ e.from # Root

\* The root's only active relationship is an owns edge to a property that
\* has no other active relationship, and the call has max_depth = 1.
OneOwnsEdge ==
    /\ IsFind
    /\ ret.max_depth = 1
    /\ AllowedTo(Root) = <<>>
    /\ Len(AllowedFrom(Root)) = 1
    /\ LET r == AllowedFrom(Root)[1] IN
         /\ r.rel_type = "owns"
         /\ r.to_type = "property"
         /\ AllowedFrom(NodeKey(r.to_type, r.to_id)) = <<>>
         /\ AllowedTo(NodeKey(r.to_type, r.to_id)) = <<r>>
         /\ \A x \in Range(relationships) : IsActive(x) /\ x # r =>
               /\ NodeKey(x.from_type, x.from_id) \notin {Root, NodeKey(r.to_type, r.to_id)}
               /\ NodeKey(x.to_type, x.to_id) \notin {Root, NodeKey(r.to_type, r.to_id)}

\* C7 as claimed: in that case the result has exactly 2 nodes and exactly
\* 1 edge.
C7_TwoNodesOneEdge ==
    OneOwnsEdge => ret.value.total_nodes = 2 /\ ret.value.total_edges = 1

\* C7 as amended: in that case the result has exactly 2 nodes, the root and
\* the property, and exactly 2 edges, the one relationship emitted at the
\* root as outgoing and again at the property as incoming.
C7_TwoNodesTwoEdges ==
    OneOwnsEdge =>
        LET r == AllowedFrom(Root)[1] IN
        /\ ret.value.total_nodes = 2
        /\ NodeKeys(ret.value) = {Root, NodeKey(r.to_type, r.to_id)}
        /\ ret.value.total_edges = 2
        /\ ret.value.edges = <<EdgeView(r), EdgeView(r)>>

C7_Witness ==
    /\ OneOwnsEdge
    /\ ret.entity_id = 1
    /\ ret.value.total_edges = 2

\* C8: for the same table contents, root, max_depth and filter, the nodes
\* and the edges of the result are the same in whatever order the store
\* returns the rows.
C8_OrderIndependentMembership ==
    IsFind =>
        \A order \in Orders(Len(relationships)) :
            LET other == find_connected_entities(InOrder(relationships, order),
                             ret.entity_id, ret.max_depth, ret.rel_types)
            IN  /\ NodeKeys(other) = NodeKeys(ret.value)
                /\ Range(other.edges) = Range(ret.value.edges)

----------------------------------------------------------------------------
(* C3, C4: score_entity *)

Scored == ret.op = "score_entity" /\ ret.raised = ""

Subject == entities[ret.entity_id]

\* The context the last score_entity call reported, with the entity row.
ReportedContext ==
    [entity               |-> Subject,
     property_count       |-> ret.value.context.property_count,
     entity_age_days      |-> ret.value.context.entity_age_days,
     agent_entity_count   |-> ret.value.context.agent_entity_count,
     address_entity_count |-> ret.value.context.address_entity_count]

\* The positions in the registry of the rules whose predicate is true.
TrueRules ==
    {i \in DOMAIN rules :
        ~Raises(rules[i], ReportedContext) /\ Holds(rules[i], ReportedContext)}

RECURSIVE WeightSum(_)
WeightSum(positions) ==
    IF positions = {} THEN 0
    ELSE LET i == CHOOSE i \in positions : TRUE
         IN  rules[i].weight + WeightSum(positions \ {i})

OnlyDefaultRules == rules = DefaultRules

OwnsNoProperty ==
    ~\E r \in Range(relationships) :
        /\ r.from_type = "entity" /\ r.from_id = ret.entity_id
        /\ r.rel_type = "owns" /\ r.to_type = "property" /\ IsActive(r)

AloneAtAddress ==
    /\ Subject.primary_address_id # None
    /\ \A e \in Range(entities) :
          e.primary_address_id = Subject.primary_address_id => e.id = Subject.id

\* C3: the score is the sum of the weights of exactly the registered rules
\* whose predicate is true on the built context, and flags names exactly
\* those rules; an entity with no formation date, address, agent or
\* property scores 5 with the single flag NO_PRIMARY_ADDRESS, and a
\* 10-day-old ACTIVE entity alone at its address, with no property (and no
\* agent), scores 25.
C3_ScoreIsSumOfTriggeredWeights ==
    Scored =>
        /\ ret.value.score = WeightSum(TrueRules)
        /\ Len(ret.value.flags) = Cardinality(TrueRules)
        /\ Range(ret.value.flags) = {rules[i].name : i \in TrueRules}
        /\ ( /\ OnlyDefaultRules
             /\ Subject.formation_date = None
             /\ Subject.primary_address_id = None
             /\ Subject.registered_agent_id = None
             /\ Subject.status \in {None, Some("ACTIVE")}
             /\ OwnsNoProperty )
           => ret.value.flags = <<"NO_PRIMARY_ADDRESS">> /\ ret.value.score = 5
        /\ ( /\ OnlyDefaultRules
             /\ Subject.formation_date = Some(Today - 10)
             /\ Subject.status = Some("ACTIVE")
             /\ Subject.registered_agent_id = None
             /\ AloneAtAddress
             /\ OwnsNoProperty )
           => /\ ret.value.flags = <<"NEW_ENTITY_LT_90_DAYS", "NEW_ENTITY_LT_30_DAYS">>
              /\ ret.value.score = 25

\* An entity was scored on several default rules and a registered rule.
C3_Witness ==
    /\ Scored
    /\ Len(ret.value.flags) >= 5
    /\ "EXTRA_ALWAYS" \in Range(ret.value.flags)
    /\ ret.value.score = WeightSum(TrueRules)

\* The grade the mapping with inclusive upper bounds gives a score.
GradeOf(score) ==
    CASE score <= 20                 -> "A"
      [] score >= 21 /\ score <= 40  -> "B"
      [] score >= 41 /\ score <= 60  -> "C"
      [] score >= 61 /\ score <= 80  -> "D"
      [] score > 80                  -> "F"

\* C4: the grade score_entity returns is the grade of the returned score
\* under the inclusive upper bounds 20, 40, 60, 80, and the row it
\* persists carries that score and that grade.
C4_GradeOfScore ==
    /\ Scored =>
          /\ ret.value.grade = GradeOf(ret.value.score)
          /\ risk_scores # <<>>
          /\ risk_scores[Len(risk_scores)].score = ret.value.score
          /\ risk_scores[Len(risk_scores)].grade = ret.value.grade
    /\ \A i \in DOMAIN risk_scores : risk_scores[i].grade = GradeOf(risk_scores[i].score)

\* A score on an upper bound: 80 is graded D.
C4_Witness ==
    /\ Scored
    /\ ret.value.score = 80
    /\ ret.value.grade = "D"

----------------------------------------------------------------------------
(* C9, C10: failing items *)

Batched == ret.op = "batch_score_entities"

\* C9: batch_score_entities raises nothing; its results are, in input
\* order, one per occurrence of an id whose entity exists, so they are no
\* more than the inputs and every entity_id in them is an input.
C9_BatchSkipsFailures ==
    Batched =>
        /\ ret.raised = ""
        /\ [i \in DOMAIN ret.value |-> ret.value[i].entity_id]
              = SelectSeq(ret.entity_ids, LAMBDA id : id \in DOMAIN entities)
        /\ Len(ret.value) <= Len(ret.entity_ids)
        /\ \A i \in DOMAIN ret.value : ret.value[i].entity_id \in Range(ret.entity_ids)

\* The batch [1, 999999]: one result, for entity 1.
C9_Witness ==
    /\ Batched
    /\ ret.entity_ids = <<1, 999999>>
    /\ Len(ret.value) = 1
    /\ ret.value[1].entity_id = 1
    /\ ret.raised = ""

\* C10: score_entity on an id with no entity raises ValueError (not found)
\* to its caller and leaves the risk_scores table as it was.
C10_NotFoundRaises ==
    [][ (ret'.op = "score_entity" /\ ret'.entity_id \notin DOMAIN entities)
          => (ret'.raised = "ValueError" /\ risk_scores' = risk_scores)
      ]_vars

\* A call for a missing id raised while the history already had rows.
C10_Witness ==
    /\ ret.op = "score_entity"
    /\ ret.entity_id \notin DOMAIN entities
    /\ ret.raised = "ValueError"
    /\ Len(risk_scores) >= 1

----------------------------------------------------------------------------
(* C11: a rule whose predicate raises *)

\* The positions in the registry of the rules whose predicate raises.
RaisingRules == {i \in DOMAIN rules : Raises(rules[i], ReportedContext)}

LastScore == risk_scores[Len(risk_scores)]

\* C11: when a registered rule's predicate raises during score_entity, the
\* result carries neither the name nor the weight of that rule, every other
\* rule whose predicate is true is in the result (those registered after
\* the raising one too), and the call returns without an error and has
\* appended one row with the returned score, grade and flags.
C11_RaisingRuleSkipped ==
    /\ [](Scored =>
            /\ \A i \in RaisingRules : rules[i].name \notin Range(ret.value.flags)
            /\ \A i \in DOMAIN rules \ RaisingRules :
                  Holds(rules[i], ReportedContext) => rules[i].name \in Range(ret.value.flags)
            /\ ret.value.score =
                  WeightSum({i \in DOMAIN rules \ RaisingRules :
                                Holds(rules[i], ReportedContext)})
            /\ risk_scores # <<>>
            /\ LastScore.entity_id = ret.entity_id
            /\ LastScore.score = ret.value.score
            /\ LastScore.grade = ret.value.grade
            /\ LastScore.flags = ret.value.flags)
    /\ [][ (ret'.op = "score_entity" /\ ret'.entity_id \in DOMAIN entities)
            => (ret'.raised = "" /\ Len(risk_scores') = Len(risk_scores) + 1)
         ]_vars

\* A scoring run in which a rule raised, and a rule registered after it and
\* a default rule before it both triggered.
C11_Witness ==
    /\ Scored
    /\ \E i \in RaisingRules :
          /\ \E j \in DOMAIN rules :
                j > i /\ rules[j].name \in Range(ret.value.flags)
          /\ \E j \in DOMAIN rules :
                j < i /\ rules[j].name \in Range(ret.value.flags)
    /\ LastScore.flags = ret.value.flags

----------------------------------------------------------------------------
(* C12: the RiskScore history *)

SameScore(row, result) ==
    /\ row.entity_id = result.entity_id
    /\ row.score = result.score
    /\ row.grade = result.grade
    /\ row.flags = result.flags

\* C12: every step of the scoring engine leaves the existing RiskScore rows
\* as they were; a score_entity call that returns appends exactly one row,
\* with the entity_id, score, grade and flags it returns; a batch appends
\* one such row per result, in order; get_latest_score appends nothing.
C12_AppendOnlyHistory ==
    [][ /\ Len(risk_scores') >= Len(risk_scores)
        /\ SubSeq(risk_scores', 1, Len(risk_scores)) = risk_scores
        /\ (ret'.op = "score_entity" /\ ret'.raised = "")
              => /\ Len(risk_scores') = Len(risk_scores) + 1
                 /\ SameScore(risk_scores'[Len(risk_scores')], ret'.value)
        /\ (ret'.op = "batch_score_entities")
              => /\ Len(risk_scores') = Len(risk_scores) + Len(ret'.value)
                 /\ \A k \in DOMAIN ret'.value :
                       SameScore(risk_scores'[Len(risk_scores) + k], ret'.value[k])
        /\ (ret'.op = "get_latest_score") => risk_scores' = risk_scores
      ]_vars

\* An entity scored again: its earlier row is still there, before the new
\* one.
C12_Witness ==
    /\ Scored
    /\ Len(risk_scores) >= 2
    /\ risk_scores[1].entity_id = ret.entity_id
    /\ SameScore(LastScore, ret.value)
    /\ risk_scores[1].id # LastScore.id

----------------------------------------------------------------------------
(* C13: get_latest_score *)

Fetched == ret.op = "get_latest_score"

RowsOf(entity_id) == {r \in Range(risk_scores) : r.entity_id = entity_id}

\* C13: get_latest_score returns nothing when the entity has no row, and
\* otherwise the score, grade and flags of the entity's row with the
\* greatest calculated_at; called right after score_entity returned for the
\* same entity it gives that call's score, grade and flags; it leaves the
\* risk_scores table as it was.
C13_LatestScore ==
    /\ [](Fetched =>
            IF RowsOf(ret.entity_id) = {}
            THEN ret.value = None
            ELSE /\ ret.value # None
                 /\ ret.value[1].entity_id = ret.entity_id
                 /\ \E r \in RowsOf(ret.entity_id) :
                       /\ \A o \in RowsOf(ret.entity_id) :
                             o.calculated_at <= r.calculated_at
                       /\ SameScore(r, ret.value[1])
                       /\ ret.value[1].calculated_at = r.calculated_at)
    /\ [][ (ret'.op = "get_latest_score")
            => /\ risk_scores' = risk_scores
               /\ (Scored /\ ret.entity_id = ret'.entity_id)
                     => (ret'.value # None /\ SameScore(ret.value, ret'.value[1]))
         ]_vars

\* The entity was scored twice with different results and another entity
\* was scored after it; the second result is the one fetched.
C13_Witness ==
    /\ Fetched
    /\ ret.value # None
    /\ \E i, j, k \in DOMAIN risk_scores :
          /\ i < j /\ j < k
          /\ risk_scores[i].entity_id = ret.entity_id
          /\ risk_scores[j].entity_id = ret.entity_id
          /\ risk_scores[k].entity_id # ret.entity_id
          /\ risk_scores[i].score # risk_scores[j].score
          /\ SameScore(risk_scores[j], ret.value[1])

----------------------------------------------------------------------------
(* C14: the order of flags *)

\* The names of the default rules in the order of their table.
TableOrder ==
    <<"NEW_ENTITY_LT_90_DAYS", "NEW_ENTITY_LT_30_DAYS", "NO_PRIMARY_ADDRESS",
      "INACTIVE_STATUS", "OWNS_GT_10_PROPERTIES", "OWNS_GT_25_PROPERTIES",
      "NO_PROPERTY_OWNERSHIP", "AGENT_REPRESENTS_GT_50_ENTITIES",
      "ADDRESS_GT_20_ENTITIES", "ADDRESS_GT_5_ENTITIES_NEW">>

\* The names of the triggered rules, in the order of the registry.
TriggeredInOrder ==
    LET triggered == SelectSeq(rules, LAMBDA rule : ~Raises(rule, ReportedContext)
                                                    /\ Holds(rule, ReportedContext))
    IN  [i \in DOMAIN triggered |-> triggered[i].name]

\* C14: the registry holds the default rules in the order of their table,
\* then the registered rules in the order of their registration; the flags
\* score_entity returns and persists are the names of the triggered rules
\* in that order, and scoring again with nothing changed gives the same
\* sequence.
C14_FlagsInRegistrationOrder ==
    /\ [](/\ Len(rules) >= Len(TableOrder)
          /\ \A i \in DOMAIN TableOrder : rules[i].name = TableOrder[i]
          /\ Scored => /\ ret.value.flags = TriggeredInOrder
                       /\ LastScore.flags = TriggeredInOrder)
    /\ [][ /\ (ret'.op = "register_rule")
              => rules' = Append(rules, ret'.rule)
           /\ (Scored /\ ret'.op = "score_entity" /\ ret'.entity_id = ret.entity_id
                  /\ rules' = rules)
              => ret'.value.flags = ret.value.flags
         ]_vars

\* Two triggering rules were registered in turn, EXTRA_LATER first; the
\* flags end with them in that order, after two or more default flags.
C14_Witness ==
    /\ Scored
    /\ Len(ret.value.flags) >= 4
    /\ SubSeq(ret.value.flags, Len(ret.value.flags) - 1, Len(ret.value.flags))
          = <<"EXTRA_LATER", "EXTRA_ALWAYS">>
    /\ LastScore.flags = ret.value.flags

----------------------------------------------------------------------------
(* C15: the confidence of a created relationship (in hundredths) *)

Created == ret.op = "create_relationship"

\* C15: a create call that inserts a row stores the confidence it was
\* given, for every given value from 0.0 to 1.0, and stores 1.0 only when
\* none was given.
C15_StoresSuppliedConfidence ==
    [][ (ret'.op = "create_relationship" /\ relationships' # relationships)
        => LET stored == relationships'[Len(relationships')] IN
           /\ ret'.args.confidence # None => stored.confidence = ret'.args.confidence
           /\ ret'.args.confidence = None => stored.confidence = Some(100)
      ]_vars

----------------------------------------------------------------------------
(* C16: create, then outgoing on the from node *)

QueriedOutgoing == ret.op = "get_outgoing_relationships"

QueriedIncoming == ret.op = "get_incoming_relationships"

\* The query that follows a create call asks for the outgoing relationships
\* of the from node of the edge the call returned, with no rel_type filter
\* or with the edge's rel_type.
OutgoingOfCreated ==
    /\ Created
    /\ ret'.op = "get_outgoing_relationships"
    /\ ret'.node_type = ret.value.from_type
    /\ ret'.node_id = ret.value.from_id
    /\ ret'.rel_type \in {None, Some(""), Some(ret.value.rel_type)}

\* C16 as stated: whatever start_date, end_date and confidence a create call
\* passes, the outgoing query on the from node right after it (active_only
\* left at its default, true) returns the edge the call returned.
C16_CreatedIsOutgoing ==
    [][ (OutgoingOfCreated /\ ret'.active_only)
          => ret.value \in Range(ret'.value) ]_vars

\* C16 amended: the outgoing query on the from node right after a create
\* call returns the edge the call returned when it is made with
\* active_only false, and with active_only true exactly when the edge has
\* no end_date.
C16_CreatedIsOutgoingWhileActive ==
    [][ OutgoingOfCreated
          => (ret.value \in Range(ret'.value)
                <=> (~ret'.active_only \/ ret.value.end_date = None)) ]_vars

\* An outgoing query with active_only false returned a relationship created
\* with an end_date, next to an active one.
C16_Witness ==
    /\ QueriedOutgoing
    /\ ~ret.active_only
    /\ \E r, o \in Range(ret.value) : r.end_date # None /\ o.end_date = None

----------------------------------------------------------------------------
(* C17: closed relationships in the queries *)

\* The stored rows on the queried side of the queried node that pass the
\* rel_type filter of the last query.
OnQueriedSide ==
    {r \in Range(relationships) :
        /\ QueriedOutgoing => (r.from_type = ret.node_type /\ r.from_id = ret.node_id)
        /\ QueriedIncoming => (r.to_type = ret.node_type /\ r.to_id = ret.node_id)
        /\ ret.rel_type \in {None, Some(""), Some(r.rel_type)}}

\* C17: an outgoing or incoming query with active_only true returns the
\* rows on the queried side that have no end_date and none that has one;
\* with active_only false it returns them all; so a query that follows the
\* closing of a relationship on its side returns that relationship exactly
\* when active_only is false.
C17_ClosedLeavesActiveQueries ==
    /\ []((QueriedOutgoing \/ QueriedIncoming) =>
            Range(ret.value) =
                {r \in OnQueriedSide : ret.active_only => r.end_date = None})
    /\ [][ (ret.op = "close_relationship"
             /\ ret'.op \in {"get_outgoing_relationships", "get_incoming_relationships"}
             /\ (ret'.op = "get_outgoing_relationships"
                   => /\ ret'.node_type = relationships[ret.id].from_type
                      /\ ret'.node_id = relationships[ret.id].from_id)
             /\ (ret'.op = "get_incoming_relationships"
                   => /\ ret'.node_type = relationships[ret.id].to_type
                      /\ ret'.node_id = relationships[ret.id].to_id)
             /\ ret'.rel_type \in {None, Some(""), Some(relationships[ret.id].rel_type)})
            => (relationships[ret.id] \in Range(ret'.value) <=> ~ret'.active_only)
         ]_vars

\* An incoming query with active_only true left out a relationship of the
\* node that was closed after its creation, and returned an active one.
C17_Witness ==
    /\ QueriedIncoming
    /\ ret.active_only
    /\ ret.value # <<>>
    /\ \E r \in OnQueriedSide : r.end_date = ClosedLater

----------------------------------------------------------------------------
(* C18 - C20: the default rules *)

Flagged(name) == name \in Range(ret.value.flags)

\* today - formation_date of the scored entity, in days.
AgeOf(entity) ==
    IF entity.formation_date = None THEN None
    ELSE Some(Today - entity.formation_date[1])

AgeBelow(entity, days) == AgeOf(entity) # None /\ AgeOf(entity)[1] < days

AgeAbove(entity, days) == AgeOf(entity) # None /\ AgeOf(entity)[1] > days

\* The active owns relationships from the scored entity to properties.
PropertiesOf(entity) ==
    {r \in Range(relationships) :
        /\ r.from_type = "entity" /\ r.from_id = entity.id
        /\ r.rel_type = "owns" /\ r.to_type = "property" /\ IsActive(r)}

\* C18: NEW_ENTITY_LT_90_DAYS is flagged iff the entity has an age below 90,
\* NEW_ENTITY_LT_30_DAYS iff it has an age below 30, NO_PROPERTY_OWNERSHIP
\* iff it owns no property and has an age above 365; so none of the three
\* is flagged without a formation date, the first is not at age 90 and the
\* last is not at age 365.
C18_AgeRules ==
    Scored =>
        /\ Flagged("NEW_ENTITY_LT_90_DAYS") <=> AgeBelow(Subject, 90)
        /\ Flagged("NEW_ENTITY_LT_30_DAYS") <=> AgeBelow(Subject, 30)
        /\ Flagged("NO_PROPERTY_OWNERSHIP")
              <=> (PropertiesOf(Subject) = {} /\ AgeAbove(Subject, 365))
        /\ Subject.formation_date = None
              => /\ ~Flagged("NEW_ENTITY_LT_90_DAYS")
                 /\ ~Flagged("NEW_ENTITY_LT_30_DAYS")
                 /\ ~Flagged("NO_PROPERTY_OWNERSHIP")
        /\ AgeOf(Subject) = Some(90) => ~Flagged("NEW_ENTITY_LT_90_DAYS")
        /\ AgeOf(Subject) = Some(365) => ~Flagged("NO_PROPERTY_OWNERSHIP")

\* An entity of exactly 365 days that owns no property was scored:
\* NO_PROPERTY_OWNERSHIP is not flagged, and neither are the two rules for
\* new entities.
C18_Witness ==
    /\ Scored
    /\ AgeOf(Subject) = Some(365)
    /\ PropertiesOf(Subject) = {}
    /\ ~Flagged("NO_PROPERTY_OWNERSHIP")
    /\ ~Flagged("NEW_ENTITY_LT_90_DAYS")

\* The entities whose primary address is that of the scored entity.
AtAddressOf(entity) ==
    IF entity.primary_address_id = None THEN {}
    ELSE {e \in Range(entities) : e.primary_address_id = entity.primary_address_id}

\* C19: ADDRESS_GT_5_ENTITIES_NEW is flagged, with weight 8, iff more than 5
\* entities are at the entity's address and the entity has an age below
\* 180 days, age 0 (formed today) included.
C19_AddressNewRule ==
    Scored =>
        /\ Flagged("ADDRESS_GT_5_ENTITIES_NEW")
              <=> (Cardinality(AtAddressOf(Subject)) > 5 /\ AgeBelow(Subject, 180))
        /\ Flagged("ADDRESS_GT_5_ENTITIES_NEW")
              => \E d \in Range(ret.value.rule_details) :
                    d.name = "ADDRESS_GT_5_ENTITIES_NEW" /\ d.weight = 8

\* The statuses that upper-case to INACTIVE or DISSOLVED.
InactiveStatuses ==
    {Some(st) : st \in {"INACTIVE", "DISSOLVED", "inactive", "dissolved",
                        "Inactive", "Dissolved"}}

Contributes(name, weight) ==
    \E d \in Range(ret.value.rule_details) : d.name = name /\ d.weight = weight

\* C20: NO_PRIMARY_ADDRESS (5) is flagged iff the entity has no primary
\* address id, INACTIVE_STATUS (8) iff its status upper-cases to INACTIVE or
\* DISSOLVED, OWNS_GT_10_PROPERTIES (10) iff property_count > 10,
\* OWNS_GT_25_PROPERTIES (20) iff property_count > 25,
\* AGENT_REPRESENTS_GT_50_ENTITIES (15) iff agent_entity_count > 50 and
\* ADDRESS_GT_20_ENTITIES (12) iff address_entity_count > 20, each whatever
\* the other attributes are and each adding its own weight.
C20_SingleAttributeRules ==
    Scored =>
        /\ Flagged("NO_PRIMARY_ADDRESS") <=> Subject.primary_address_id = None
        /\ Flagged("INACTIVE_STATUS") <=> Subject.status \in InactiveStatuses
        /\ Flagged("OWNS_GT_10_PROPERTIES") <=> ret.value.context.property_count > 10
        /\ Flagged("OWNS_GT_25_PROPERTIES") <=> ret.value.context.property_count > 25
        /\ Flagged("AGENT_REPRESENTS_GT_50_ENTITIES")
              <=> ret.value.context.agent_entity_count > 50
        /\ Flagged("ADDRESS_GT_20_ENTITIES")
              <=> ret.value.context.address_entity_count > 20
        /\ ret.value.context.property_count = Cardinality(PropertiesOf(Subject))
        /\ Flagged("NO_PRIMARY_ADDRESS") => Contributes("NO_PRIMARY_ADDRESS", 5)
        /\ Flagged("INACTIVE_STATUS") => Contributes("INACTIVE_STATUS", 8)
        /\ Flagged("OWNS_GT_10_PROPERTIES") => Contributes("OWNS_GT_10_PROPERTIES", 10)
        /\ Flagged("OWNS_GT_25_PROPERTIES") => Contributes("OWNS_GT_25_PROPERTIES", 20)
        /\ Flagged("AGENT_REPRESENTS_GT_50_ENTITIES")
              => Contributes("AGENT_REPRESENTS_GT_50_ENTITIES", 15)
        /\ Flagged("ADDRESS_GT_20_ENTITIES") => Contributes("ADDRESS_GT_20_ENTITIES", 12)
        /\ Len(ret.value.rule_details) = Len(ret.value.flags)
        /\ ret.value.score = WeightSum(TrueRules)

\* A dissolved entity with more than 25 properties, an agent for more than
\* 50 entities and more than 20 entities at its address: the five rules
\* are flagged together.
C20_Witness ==
    /\ Scored
    /\ Subject.status = Some("dissolved")
    /\ Flagged("INACTIVE_STATUS")
    /\ Flagged("OWNS_GT_10_PROPERTIES")
    /\ Flagged("OWNS_GT_25_PROPERTIES")
    /\ Flagged("AGENT_REPRESENTS_GT_50_ENTITIES")
    /\ Flagged("ADDRESS_GT_20_ENTITIES")
    /\ ~Flagged("NO_PRIMARY_ADDRESS")

----------------------------------------------------------------------------
(* C21 *)

\* The rules of a registry in registration order: the default ones, then
\* the registered ones.
OfRegistry(list) ==
    /\ Len(list) >= Len(DefaultRules)
    /\ SubSeq(list, 1, Len(DefaultRules)) = DefaultRules
    /\ \A i \in DOMAIN list : i > Len(DefaultRules) => list[i] \in ExtraRules

\* C21: the list get_rules returns, with or without a category, is a copy:
\* appending to it, removing from it or reordering it leaves the registry's
\* rule list, and with it what later get_rules and score_entity calls
\* return, as it was.
C21_ReturnedListIsCopy ==
    [][/\ ret'.op = "get_rules" =>
             /\ rules' = rules
             /\ ret'.value.items = get_rules(rules, ret'.category)
       /\ ret'.op = "edit_returned_list" =>
             /\ rules' = rules
             /\ OfRegistry(rules')
             /\ \A category \in Categories :
                   get_rules(rules', category) = get_rules(rules, category)
             /\ score_entity(entities', relationships', rules', risk_scores', 1)
                   = score_entity(entities, relationships, rules, risk_scores, 1)
       /\ ret'.op = "score_entity" =>
             /\ OfRegistry(rules)
             /\ "CALLER_RULE" \notin Range(ret'.value.flags)]_vars

\* The caller's list no longer has the registry's rules of its category,
\* and a rule was registered before the call.
C21_Witness ==
    /\ ret.op = "edit_returned_list"
    /\ ret.edits = MaxEdits
    /\ ret.value.items # get_rules(rules, ret.category)
    /\ Len(rules) > Len(DefaultRules)

----------------------------------------------------------------------------
(* C22 *)

\* The completed calls: the k-th of session s as the pair (s, k).
Completed == {c \in Sessions \X (1..MaxScores) : c[2] \in DOMAIN CompletedBy(c[1])}

RowOf(c) == CompletedBy(c[1])[c[2]].row_id

\* C22: score_entity calls that run concurrently, for the same entity or
\* for different ones, each add their own row: the table holds exactly one
\* row per completed call, with that call's entity, score, grade and flags,
\* no two calls share a row, and the relationships and entities are the
\* ones the calls started from.
C22_ConcurrentScoresAllKept ==
    /\ Len(risk_scores) = Cardinality(Completed)
    /\ \A c \in Completed :
          /\ RowOf(c) \in DOMAIN risk_scores
          /\ risk_scores[RowOf(c)].id = RowOf(c)
          /\ SameScore(risk_scores[RowOf(c)], CompletedBy(c[1])[c[2]].result)
    /\ \A c, d \in Completed : c # d => RowOf(c) # RowOf(d)
    /\ \E profile \in ScoreProfiles :
          /\ relationships = RelationshipsOf(profile)
          /\ entities = EntitiesOf(profile)

\* Two sessions evaluated the same entity before either saved, and both
\* have saved.
C22_Witness ==
    /\ InFlight = {}
    /\ \A s \in Sessions : Len(CompletedBy(s)) = 1
    /\ CompletedBy(1)[1].result.entity_id = CompletedBy(2)[1].result.entity_id
    /\ risk_scores[1].calculated_at = risk_scores[2].calculated_at

----------------------------------------------------------------------------
(* C23 *)

\* C23: after any sequence of register_rule calls, every score that
\* score_entity returns and every score in the risk_scores table is an
\* integer that is at least 0.
C23_ScoresNonNegative ==
    /\ \A i \in DOMAIN risk_scores : risk_scores[i].score \in Nat
    /\ (ret.op = "score_entity" /\ ret.raised = "") => ret.value.score \in Nat

----------------------------------------------------------------------------
(* C24, C26: the context of a scoring call, counted on the tables *)

\* The active relationships of a type from a node to nodes of a type.
ActiveFromTo(rels, from_type, from_id, rel_type, to_type) ==
    {i \in DOMAIN rels :
        /\ rels[i].from_type = from_type
        /\ rels[i].from_id = from_id
        /\ rels[i].rel_type = rel_type
        /\ rels[i].to_type = to_type
        /\ rels[i].end_date = None}

CountedContext(rels, ents, entity_id) ==
    LET entity == ents[entity_id] IN
    [property_count       |->
        Cardinality(ActiveFromTo(rels, "entity", entity_id, "owns", "property")),
     entity_age_days      |->
        IF entity.formation_date = None THEN None
        ELSE Some(Today - entity.formation_date[1]),
     agent_entity_count   |->
        IF entity.registered_agent_id = None THEN 0
        ELSE Cardinality(ActiveFromTo(rels, "person", entity.registered_agent_id[1],
                                      "agent_for", "entity")),
     address_entity_count |->
        IF entity.primary_address_id = None THEN 0
        ELSE Cardinality({j \in DOMAIN ents :
                             ents[j].primary_address_id = entity.primary_address_id})]

\* C24: a scoring call reports the context of the tables as they are at the
\* call, whatever relationships were created or closed and whatever entity
\* attributes were changed before it, and its result is the one the same
\* call gives on an empty risk_scores table: earlier calls and stored rows
\* play no part.
C24_ContextFromCurrentStore ==
    [][(ret'.op = "score_entity" /\ ret'.raised = "") =>
          /\ ret'.value.context = CountedContext(relationships, entities, ret'.entity_id)
          /\ ret'.value = score_entity(entities, relationships, rules, <<>>,
                                       ret'.entity_id).value]_vars

\* Entity 1 was scored, then a relationship was closed or an attribute
\* changed, and the next call gave another result.
C24_Witness ==
    /\ ret.op = "score_entity"
    /\ Len(risk_scores) >= 2
    /\ risk_scores[1].entity_id = 1
    /\ risk_scores[2].entity_id = 1
    /\ risk_scores[1].flags # risk_scores[2].flags
    /\ \E i \in DOMAIN relationships : relationships[i].end_date = ClosedLater
    /\ entities[1].primary_address_id # None

\* C26: property_count is the number of active owns relationships from the
\* entity to property nodes; agent_entity_count is 0 without a registered
\* agent and otherwise the number of active agent_for relationships from
\* that person to entity nodes; address_entity_count is 0 without a primary
\* address and otherwise the number of entities at that address; and the
\* call changes no relationship and no entity.
C26_ContextCounts ==
    [][(ret'.op = "score_entity" /\ ret'.raised = "") =>
          LET counted == CountedContext(relationships, entities, ret'.entity_id) IN
          /\ ret'.value.context.property_count = counted.property_count
          /\ ret'.value.context.agent_entity_count = counted.agent_entity_count
          /\ ret'.value.context.address_entity_count = counted.address_entity_count
          /\ relationships' = relationships
          /\ entities' = entities
          /\ Len(risk_scores') = Len(risk_scores) + 1]_vars

\* The scored entity has closed relationships and relationships to nodes of
\* other types next to the counted ones, an agent and neighbours at its
\* address.
C26_Witness ==
    /\ ret.op = "score_entity"
    /\ ret.value.context.property_count = 11
    /\ ret.value.context.agent_entity_count = 50
    /\ ret.value.context.address_entity_count = 5
    /\ Len(get_outgoing_relationships(relationships, "entity", 1, Some("owns"), FALSE)) = 13
    /\ Len(get_outgoing_relationships(relationships, "person", 1, Some("agent_for"), FALSE)) = 52

----------------------------------------------------------------------------
(* C25: roots that no relationship mentions *)

\* No row of the table, active or closed, has the root at either end.
RootUnknown ==
    \A i \in DOMAIN relationships :
        /\ NodeKey(relationships[i].from_type, relationships[i].from_id) # Root
        /\ NodeKey(relationships[i].to_type, relationships[i].to_id) # Root

OnlyRoot ==
    /\ ret.value.nodes = {[type |-> "entity", id |-> ret.entity_id, depth |-> 0]}
    /\ ret.value.total_nodes = 1
    /\ ret.value.edges = <<>>
    /\ ret.value.total_edges = 0

\* C25: for a root that does not exist or has no relationships the call
\* returns, whatever the arguments, exactly one node, the root at depth 0,
\* and no edge.
C25_UnknownRootOneNode == (IsFind /\ RootUnknown) => OnlyRoot

\* C25, for the depths it holds for: with max_depth >= 0 a root that does
\* not exist or has no relationships gives exactly one node, the root at
\* depth 0, and no edge; with max_depth < 0 it gives no node and no edge.
C25_UnknownRootOneNodeFromDepthZero ==
    (IsFind /\ RootUnknown) =>
        /\ ret.max_depth >= 0 => OnlyRoot
        /\ ret.max_depth < 0 =>
              /\ ret.value.nodes = {}
              /\ ret.value.edges = <<>>
              /\ ret.value.total_nodes = 0
              /\ ret.value.total_edges = 0

\* A root that no row mentions was traversed to a depth of at least 0 in a
\* store that holds relationships of other nodes.
C25_Witness ==
    /\ IsFind
    /\ RootUnknown
    /\ ret.max_depth >= 0
    /\ Len(relationships) >= 3
    /\ ret.value.total_nodes = 1

----------------------------------------------------------------------------
(* C27: the edges of a traversal, counted node by node *)

\* The number of times x occurs in a sequence.
Occurrences(seq, x) == Cardinality({i \in DOMAIN seq : seq[i] = x})

\* The node at an end ("from" or "to") of a relationship.
EndOf(r, end) ==
    IF end = "from" THEN NodeKey(r.from_type, r.from_id)
    ELSE NodeKey(r.to_type, r.to_id)

\* The active relationships whose rel_type is in the filter of the last
\* call, every type when no filter was given.
InFilter == {i \in DOMAIN relationships :
                /\ relationships[i].end_date = None
                /\ \/ ret.rel_types = None
                   \/ relationships[i].rel_type \in Range(ret.rel_types[1])}

\* The same, an empty filter list counting as no filter.
InFilterOrEmpty == {i \in DOMAIN relationships :
                       /\ relationships[i].end_date = None
                       /\ \/ ret.rel_types = None
                          \/ ret.rel_types[1] = <<>>
                          \/ relationships[i].rel_type \in Range(ret.rel_types[1])}

\* The edges of the result are, view by view, one per end of an allowed
\* relationship at a visited node; every node but the root was entered
\* over an allowed relationship from a node one level up; the totals are
\* the sizes.
EdgesOfVisited(allowed) ==
    LET result == ret.value
        views  == {EdgeView(relationships[i]) : i \in DOMAIN relationships}
                     \cup Range(result.edges)
    IN  /\ \A view \in views :
              Occurrences(result.edges, view) =
                 Cardinality({x \in allowed \X {"from", "to"} :
                                 /\ EdgeView(relationships[x[1]]) = view
                                 /\ EndOf(relationships[x[1]], x[2]) \in NodeKeys(result)})
        /\ \A n \in result.nodes :
              NodeKey(n.type, n.id) # Root =>
                 \E i \in allowed, m \in result.nodes :
                    /\ m.depth = n.depth - 1
                    /\ {NodeKey(n.type, n.id), NodeKey(m.type, m.id)} =
                          {NodeKey(relationships[i].from_type, relationships[i].from_id),
                           NodeKey(relationships[i].to_type, relationships[i].to_id)}
        /\ result.total_edges = Len(result.edges)
        /\ result.total_nodes = Cardinality(result.nodes)

\* C27: at each visited node the traversal emits exactly one EdgeView per
\* active outgoing and per active incoming relationship whose rel_type is in
\* the filter (every type when the filter is absent), whether or not the
\* far end was visited, and follows only those; closed and filtered-out
\* relationships are neither emitted nor followed; total_edges and
\* total_nodes are the sizes of edges and nodes.
C27_EdgesOfVisitedNodes == IsFind => EdgesOfVisited(InFilter)

\* C27, with the filter as the code reads it: an absent filter and an empty
\* filter list both let every type through.
C27_EdgesOfVisitedNodesEmptyFilter == IsFind => EdgesOfVisited(InFilterOrEmpty)

\* A filtered traversal of a store with a closed row, a filtered-out row
\* and parallel rows, which emitted an edge into a node visited before.
C27_Witness ==
    /\ IsFind
    /\ ret.rel_types = Some(<<"owns">>)
    /\ \E i \in DOMAIN relationships : relationships[i].end_date # None
    /\ \E i \in DOMAIN relationships : relationships[i].rel_type = "officer_of"
    /\ ret.value.total_edges > 2 * (ret.value.total_nodes - 1)
    /\ ret.value.total_nodes >= 3

----------------------------------------------------------------------------
(* C28: the nodes of a traversal against the nodes within max_depth steps *)

\* The nodes one step from a set of nodes over an active relationship that
\* the filter lets through, in either direction.
Neighbours(keys) ==
    {EndOf(relationships[x[1]], x[2]) :
        x \in {y \in InFilterOrEmpty \X {"from", "to"} :
                  EndOf(relationships[y[1]], IF y[2] = "from" THEN "to" ELSE "from")
                     \in keys}}

\* The nodes at most k steps from the root.
RECURSIVE Within(_)
Within(k) ==
    IF k = 0 THEN {Root}
    ELSE Within(k - 1) \cup Neighbours(Within(k - 1))

\* C28: for max_depth >= 0 the nodes of the result are exactly the nodes
\* whose shortest path from the root, over active relationships that the
\* filter lets through and in either direction, has at most max_depth
\* steps, and the depth recorded for each node is between 0 and max_depth.
C28_NodesWithinMaxDepth ==
    (IsFind /\ ret.max_depth >= 0) =>
        /\ NodeKeys(ret.value) = Within(ret.max_depth)
        /\ \A n \in ret.value.nodes : n.depth \in 0..ret.max_depth

----------------------------------------------------------------------------
(* C29: the work of one traversal *)

\* The nodes that the rows of the table mention, and the root.
StoreNodes ==
    {Root} \cup {EndOf(relationships[i], end) :
                    i \in DOMAIN relationships, end \in {"from", "to"}}

ActiveRows == {i \in DOMAIN relationships : relationships[i].end_date = None}

\* C29: a traversal ends on every finite store and for every max_depth,
\* on cycles, self-loops and parallel relationships too: traverse records a
\* node at most once per call, so it fetches the relationships of at most
\* as many nodes as the store has, and it is called once for the root and
\* once per emitted edge, at most once for each end of an active
\* relationship, whatever max_depth is.
C29_TraversalEnds ==
    IsFind =>
        /\ Len(ret.value.visits) <= Cardinality(StoreNodes)
        /\ Len(ret.value.edges) <= 2 * Cardinality(ActiveRows)
        /\ \A n \in ret.value.nodes : n.depth < Cardinality(StoreNodes)

\* A traversal to a depth beyond the number of nodes, over a cycle, the
\* self-loop and the parallel relationships, that visited every node.
C29_Witness ==
    /\ IsFind
    /\ ret.max_depth > Cardinality(StoreNodes)
    /\ ret.rel_types = None
    /\ NodeKeys(ret.value) = StoreNodes
    /\ Cardinality(StoreNodes) = 4
    /\ \E e \in Range(ret.value.edges) : e.from = e.to
    /\ \E e \in Range(ret.value.edges) : e.relationship = "officer_of"
    /\ \E e \in Range(ret.value.edges) : e.relationship = "owns" /\ e.to = <<"property", 1>>
    /\ ret.value.total_edges = 2 * Cardinality(ActiveRows)

----------------------------------------------------------------------------
(* C30 *)

\* C30: over any sequence of create_verification_request, upload_document,
\* verify_liveness, submit_for_review and admin_review calls, a request is
\* APPROVED or REJECTED only after it was SUBMITTED, that is, after a
\* submit_for_review call that found at least one document and at least
\* one liveness check for it.
C30_DecidedOnlyAfterSubmitted ==
    \A i \in DOMAIN verifications :
        verifications[i].status \in {"approved", "rejected"} =>
            /\ verifications[i].submitted_at # None
            /\ verifications[i].documents > 0
            /\ verifications[i].liveness_checks > 0

====
